---- MODULE Spec2Model ----
(***************************************************************************)
(* Neural-CheChe: the league protocol (league/league_manager.py), the      *)
(* match loop (league/competition.py), the search engine (core/mcts.py)    *)
(* and the replay buffer (core/replay_buffer.py).                          *)
(*                                                                         *)
(* The specifications share the variables:                                 *)
(*   SpecMatch          one Match.play, statement by statement             *)
(*   SpecValidatedMove  Match._get_validated_move alone                    *)
(*   SpecMakeMove       one call of game.make_move                         *)
(*   SpecLeague         LeagueManager.run_training, a match or phase a step*)
(*   SpecEvaluation     the challenger and wildcard phases of a generation *)
(*   SpecMCTS           one MCTS.search, one simulation per step           *)
(*   SpecBackpropagate  MCTSNode.backpropagate on small trees              *)
(*   SpecTraining       sample, split by game, train_step                  *)
(*   SpecBuffer         SharedReplayBuffer.add by its clients              *)
(*                                                                         *)
(* Rewards are floats in [-1, 1] in the source; the model keeps them as    *)
(* integers scaled by 100 (0.05 is 5, 1 is 100).                           *)
(***************************************************************************)
EXTENDS Integers, Sequences, FiniteSets, TLC

\* ------------------------------------------------------------------ bounds
\* Match.max_moves is set to 200 in Match.__init__; the model runs the same
\* loop with a small limit so that the move limit is reached.
max_moves == 3
\* config['max_moves_per_game'] (presets: 200, 150, 100); never read by Match.
max_moves_per_game == 2
\* config['buffer_capacity'] (100000 by default).
buffer_capacity == 4

\* ------------------------------------------------------- program constants
\* the "pending" reward of an experience (None in the source), outside the
\* scaled reward range -100..100
None == -1000
\* _get_validated_move(self, agent, max_retries=3)
max_retries == 3

GameTypes == {"chess", "checkers"}
Moves == {"m1", "m2"}

\* LeagueManager._run_game_generation_with_progress: the generation roster
games_config ==
  << [agent1 |-> "Champion", agent2 |-> "Champion", game_type |-> "chess"],
     [agent1 |-> "Alpha",    agent2 |-> "Beta",     game_type |-> "chess"],
     [agent1 |-> "Beta",     agent2 |-> "Alpha",    game_type |-> "chess"],
     [agent1 |-> "Champion", agent2 |-> "Champion", game_type |-> "checkers"],
     [agent1 |-> "Alpha",    agent2 |-> "Beta",     game_type |-> "checkers"],
     [agent1 |-> "Beta",     agent2 |-> "Alpha",    game_type |-> "checkers"] >>

AgentNames == {"Champion", "Alpha", "Beta", "Wildcard"}

\* ------------------------------------------------------------------ boards
\* A board is what the rule engines (python-chess, pydraughts) expose to the
\* game adapters: the side to move, the termination status, the material
\* balance (chess) and the piece counts (checkers).
Board(t, s, m, p) ==
  [turn |-> t, status |-> s, material |-> m,
   p1 |-> p[1], p2 |-> p[2], k1 |-> p[3], k2 |-> p[4]]

NoPieces == <<0, 0, 0, 0>>

\* the positions a chess game moves through, up to the side to move
ChessShapes ==
  { <<"ongoing", 0>>, <<"checkmate", 0>>, <<"draw", 0>>, <<"draw", -6>>,
    <<"fivefold", 0>>, <<"fivefold", 4>> }

\* the positions a checkers game moves through: status and
\* <<player-1 pieces, player-2 pieces, player-1 kings, player-2 kings>>
CheckersShapes ==
  { <<"ongoing", <<12, 12, 0, 0>> >>, <<"ongoing", <<3, 1, 1, 0>> >>,
    <<"ongoing", <<2, 4, 0, 0>> >>, <<"won1", <<3, 0, 1, 0>> >>,
    <<"won2", <<0, 2, 0, 0>> >>, <<"draw", <<1, 1, 1, 1>> >> }

Boards(game) ==
  IF game = "chess"
  THEN { Board(t, s[1], s[2], NoPieces) : t \in {1, -1}, s \in ChessShapes }
  ELSE { Board(t, s[1], 0, s[2]) : t \in {1, -1}, s \in CheckersShapes }

\* ChessGame.create_board / CheckersGame.create_board. pydraughts decides
\* which side starts; both are allowed for checkers.
create_board(game) ==
  IF game = "chess"
  THEN { Board(1, "ongoing", 0, NoPieces) }
  ELSE { Board(t, "ongoing", 0, <<12, 12, 0, 0>>) : t \in {1, -1} }

\* ChessGame.is_game_over / CheckersGame.is_game_over
is_game_over(b) == b.status # "ongoing"

\* get_current_player
get_current_player(b) == b.turn

\* get_legal_moves: a position that is not over has moves
get_legal_moves(b) == IF is_game_over(b) THEN {} ELSE Moves

\* make_move(board, move): the engine pushes the move; the other side is to
\* move and the position is any position of the game
make_move(game, b) == { b2 \in Boards(game) : b2.turn = -b.turn }

Abs(x) == IF x < 0 THEN -x ELSE x
Min(a, b) == IF a < b THEN a ELSE b
Max(a, b) == IF a > b THEN a ELSE b

\* ChessGame.get_reward
chess_get_reward(b) ==
  IF b.status = "checkmate" THEN (IF b.turn = 1 THEN -100 ELSE 100)
  ELSE IF b.status = "draw" THEN
    IF Abs(b.material) > 5
    THEN LET penalty == IF b.material > 0 THEN -70 ELSE 70
         IN  IF b.turn = 1 THEN penalty ELSE -penalty
    ELSE 0
  ELSE IF b.status = "fivefold" THEN
    IF Abs(b.material) > 3
    THEN LET penalty == IF b.material > 0 THEN -50 ELSE 50
         IN  IF b.turn = 1 THEN penalty ELSE -penalty
    ELSE (IF b.turn = 1 THEN -20 ELSE 20)
  ELSE 0

\* CheckersGame.get_reward: the values it can return. For a position that is
\* not over the piece count is evaluated in a try block whose except clause
\* returns 0
checkers_get_reward(b) ==
  IF b.status # "ongoing"
  THEN {IF b.status = "won1" THEN 100 ELSE IF b.status = "won2" THEN -100 ELSE 0}
  ELSE LET piece_advantage == (b.p1 - b.p2) + 2 * (b.k1 - b.k2)
           total_pieces == b.p1 + b.p2
       IN  {IF total_pieces < 8 /\ Abs(piece_advantage) > 2
            THEN Min(40, Max(-40, piece_advantage * 8))
            ELSE Min(30, Max(-30, piece_advantage * 5)),
            0}

\* game.get_reward(board): the values it can return
get_reward(game, b) ==
  IF game = "chess" THEN {chess_get_reward(b)} ELSE checkers_get_reward(b)

\* ChessGame.get_winner / CheckersGame.get_winner
get_winner(game, b) ==
  IF game = "chess"
  THEN (IF b.status = "checkmate" THEN (IF b.turn = 1 THEN -1 ELSE 1) ELSE 0)
  ELSE (IF b.status = "won1" THEN 1 ELSE IF b.status = "won2" THEN -1 ELSE 0)

\* --------------------------------------------------------------- state
VARIABLES
  \* Match (league/competition.py)
  pc,                \* where Match.play stands
  agent1, agent2,    \* the names of the two agent objects of the match
  game_type,
  enable_validation, \* whether the match has a MoveValidator
  buffer_given,      \* whether play() was given a replay buffer
  board,
  move_count,
  experiences,       \* list of <<state, policy, reward, agent name>>
  final_reward,
  winner,
  attempt,           \* loop index of _get_validated_move
  move,              \* the move _get_validated_move returned
  legal_moves_raised, \* get_legal_moves raised inside _get_fallback_move
  move_logger,       \* Match.move_logger is a MoveLogger (else None)
  current_games,     \* the match's game_id is in MoveLogger.current_games
  start_game_log_called, \* Match.play has called start_game_log
  end_game_log_calls, \* how often end_game_log was called for the game_id
  logger_failed,     \* a call into the logger or the tracker has failed
  \* shared by the match and the league
  agents,            \* per agent: wins and games_played by game type
  replay_buffer,     \* SharedReplayBuffer.buffer, oldest first
  quit_pending,      \* a QUIT event waits in the pygame event queue
  \* LeagueManager (league/league_manager.py)
  lpc,               \* where run_training stands
  generation,
  match_index,       \* index into games_config of the next roster match
  phase_attempt,     \* loop index of the handle_errors wrapper of the phase
  agent_idx, step,   \* loop indices of the training phase
  weights,           \* per agent: the identity of its network weights
  next_weight,       \* the next weights never seen before
  training_iterations, \* TrainingAgent.training_iterations of Alpha and Beta
  defense_record,    \* ChampionAgent.defense_record["wins"]
  promotion_history, \* ChampionAgent.promotion_history
  champion_history,  \* LeagueManager.champion_history
  best_agent,        \* the challenger of the last challenger phase
  win_rate,          \* <<wins, games>> of the last challenger evaluation
  baseline_scores,   \* WildcardAgent.baseline_scores
  quit_gen,          \* the generation in which the user asked to quit
  matches_returned,  \* roster matches of this generation that have returned
  training_finished, \* the training phase of this generation has returned
  loaded_generation, \* stats['generation'] of the checkpoint that was loaded
  challenger_phases_run, \* how many challenger phases run_training has run
  \* MCTS (core/mcts.py)
  spc,               \* where MCTS.search stands
  root_board,        \* the board search was called with
  tree,              \* path of moves from the root -> MCTSNode
  sim_idx,           \* loop index of the simulations
  completed,         \* how many _simulate calls returned
  failed_sims,       \* how many iterations of the simulation loop raised
  root_failures,     \* what raised while the root was expanded
  evaluation_failed, \* an evaluation or expansion raised inside _simulate
  bp_node, bp_value, \* the node and value of the last backpropagate call
  policy,            \* the mapping search returned: move -> <<visits, total>>
  \* one training step (league_manager.py lines 906-923, core/training.py)
  tpc,               \* where the training step stands
  batch,             \* the sampled batch: <<experience, game that produced it>>
  buffer_games,      \* per buffer entry, the game that produced it
  train_game,        \* the game_type argument of train_step
  loss_info,         \* the dict train_step returned
  raised_at,         \* the statement of train_step that raised, or "none"
  weights_before,    \* the weights when train_step was called
  train_calls,       \* per game type, the batch train_step was called with
  \* a client of SharedReplayBuffer (core/replay_buffer.py)
  add_log            \* the arguments of the add calls so far

MatchVars == <<pc, agent1, agent2, game_type, enable_validation, buffer_given,
               board, move_count, experiences, final_reward, winner, attempt, move,
               legal_moves_raised, move_logger, current_games,
               start_game_log_called, end_game_log_calls, logger_failed>>
LoggerVars == <<move_logger, current_games, start_game_log_called,
                end_game_log_calls, logger_failed>>
SharedVars == <<agents, replay_buffer>>
LeagueVars == <<lpc, generation, match_index, phase_attempt, agent_idx, step, weights,
                next_weight, training_iterations, defense_record, promotion_history,
                champion_history, best_agent, win_rate, baseline_scores, quit_gen,
                matches_returned, training_finished, loaded_generation,
                challenger_phases_run>>
MCTSVars == <<spc, root_board, tree, sim_idx, completed, failed_sims,
              root_failures, evaluation_failed, bp_node, bp_value, policy>>
TrainVars == <<tpc, batch, buffer_games, train_game, loss_info, raised_at,
               weights_before, train_calls>>
vars == <<MatchVars, SharedVars, quit_pending, LeagueVars, MCTSVars, TrainVars,
          add_log>>

NoMove == "none"
NoBoard == Board(1, "ongoing", 0, NoPieces)

\* AIAgent.__init__: the statistics of a fresh agent
NewAgent ==
  [wins |-> [g \in GameTypes |-> 0], games_played |-> [g \in GameTypes |-> 0]]

\* LeagueManager._initialize_agents: every agent gets its own random network,
\* then Alpha and Beta copy the Champion's weights. Weights are named by
\* numbers; equal numbers are equal state_dicts.
InitialWeights ==
  [a \in AgentNames |-> IF a = "Wildcard" THEN 1 ELSE 0]

\* LeagueManager.__init__: the league before run_training is called
LeagueConstructed ==
  /\ lpc = "constructed"
  /\ generation = 0
  /\ match_index = 0
  /\ phase_attempt = 0
  /\ agent_idx = 0
  /\ step = 0
  /\ weights = InitialWeights
  /\ next_weight = 2
  /\ training_iterations = [a \in {"Alpha", "Beta"} |-> 0]
  /\ defense_record = 0
  /\ promotion_history = <<>>
  /\ champion_history = <<>>
  /\ best_agent = "none"
  /\ win_rate = <<0, 0>>
  /\ baseline_scores = <<>>
  /\ quit_gen = {}
  /\ matches_returned = 0
  /\ training_finished = FALSE
  /\ loaded_generation = None
  /\ challenger_phases_run = 0

\* MoveLogger.__init__: no game is in progress, nothing was called yet
LoggerNotStarted ==
  /\ current_games = FALSE
  /\ start_game_log_called = FALSE
  /\ end_game_log_calls = 0
  /\ logger_failed = FALSE

\* no search is under way
SearchNotStarted ==
  /\ spc = "idle"
  /\ root_board = NoBoard
  /\ tree = <<>>
  /\ sim_idx = 0
  /\ completed = 0
  /\ failed_sims = 0
  /\ root_failures = {}
  /\ evaluation_failed = FALSE
  /\ bp_node = <<>>
  /\ bp_value = 0
  /\ policy = <<>>

\* the dict of losses train_step returns when it caught an exception
ZeroLoss == [total_loss |-> 0, policy_loss |-> 0, value_loss |-> 0]

\* no dict yet
NoLoss == [total_loss |-> None, policy_loss |-> None, value_loss |-> None]

\* no training step is under way and the buffer has no other client
TrainingNotStarted ==
  /\ tpc = "idle"
  /\ batch = <<>>
  /\ buffer_games = <<>>
  /\ train_game = "chess"
  /\ loss_info = NoLoss
  /\ raised_at = "none"
  /\ weights_before = InitialWeights
  /\ train_calls = [g \in GameTypes |-> <<>>]
  /\ add_log = <<>>

\* AIAgent.record_game_result (total_reward, a float sum read by no decision,
\* is left out)
record_game_result(ags, name, game, won) ==
  [ags EXCEPT ![name].games_played[game] = @ + 1,
              ![name].wins[game] = @ + (IF won THEN 1 ELSE 0)]

\* ---------------------------------------------------------- replay buffer
\* the last n elements of a sequence
LastN(s, n) == IF Len(s) <= n THEN s ELSE SubSeq(s, Len(s) - n + 1, Len(s))

\* deque(maxlen=capacity).extend
deque_extend(buf, xs) == LastN(buf \o xs, buffer_capacity)

\* SharedReplayBuffer.add with a list argument
add(buf, xs) == deque_extend(buf, xs)

\* SharedReplayBuffer.__len__
buffer_len(buf) == Len(buf)

\* "if replay_buffer and self.experiences": Python truth of the buffer
\* argument is its __len__ (None is false) and of a list its length
buffer_is_truthy(given, buf) == given /\ buffer_len(buf) > 0

\* Match.play lines 135-139: what the buffer holds when play returns
buffer_after_play(given, buf, exps) ==
  IF buffer_is_truthy(given, buf) /\ Len(exps) > 0 THEN add(buf, exps) ELSE buf

\* ------------------------------------------------------------ Match.play
current_agent == IF get_current_player(board) = 1 THEN agent1 ELSE agent2

\* mutant: start_game_log lets its exception out
start_game_log_raises_on_failure(failed) == failed

\* MoveLogger.start_game_log lines 56-83: the except clause prints and
\* returns, whatever failed
start_game_log_raises(failed) == FALSE

\* Match.play lines 61-74, before the try block: start_game_log when the
\* match has a logger. The game is registered in current_games (line 61)
\* before the log file is written
StartGameLog ==
  /\ pc = "constructed"
  /\ IF move_logger
     THEN \E failed \in BOOLEAN :
            /\ start_game_log_called' = TRUE
            /\ current_games' = TRUE
            /\ logger_failed' = (logger_failed \/ failed)
            /\ pc' = IF start_game_log_raises(failed) THEN "aborted"
                     ELSE "create_board"
     ELSE /\ pc' = "create_board"
          /\ UNCHANGED <<start_game_log_called, current_games, logger_failed>>
  /\ UNCHANGED <<agent1, agent2, game_type, enable_validation, buffer_given, board,
                 move_count, experiences, final_reward, winner, attempt, move,
                 legal_moves_raised, move_logger, end_game_log_calls,
                 SharedVars, quit_pending, LeagueVars, MCTSVars, TrainVars, add_log>>

\* Match.play lines 76-80: the board is created, the match state reset
StartPlay ==
  /\ pc = "create_board"
  /\ board' \in create_board(game_type)
  /\ experiences' = <<>>
  /\ move_count' = 0
  /\ pc' = "loop"
  /\ UNCHANGED <<agent1, agent2, game_type, enable_validation, buffer_given,
                 final_reward, winner, attempt, move, legal_moves_raised,
                 LoggerVars,
                 SharedVars, quit_pending, LeagueVars, MCTSVars, TrainVars, add_log>>

\* Match.play lines 128-139 after an exception in the try block
ReturnAfterError(exps) ==
  /\ final_reward' = 0
  /\ replay_buffer' = buffer_after_play(buffer_given, replay_buffer, exps)
  /\ pc' = "returned"

\* Match.play lines 83-90: the loop condition, then the board is drawn
LoopTest ==
  /\ pc = "loop"
  /\ IF ~is_game_over(board) /\ move_count < max_moves
     THEN \/ /\ pc' = "select"
             /\ attempt' = 0
             /\ legal_moves_raised' = FALSE
             /\ UNCHANGED <<final_reward, replay_buffer>>
          \* _update_visualization raises: the except clause
          \/ /\ ReturnAfterError(experiences)
             /\ UNCHANGED <<attempt, legal_moves_raised>>
     ELSE /\ pc' = "finalize"
          /\ UNCHANGED <<attempt, legal_moves_raised>>
          /\ UNCHANGED <<final_reward, replay_buffer>>
  /\ UNCHANGED <<agent1, agent2, game_type, enable_validation, buffer_given, board,
                 move_count, experiences, winner, move, LoggerVars, agents,
                 quit_pending, LeagueVars, MCTSVars, TrainVars, add_log>>

\* mutant: None as soon as a legal move fails on the test board
get_fallback_move_gives_up(b) ==
  { [move |-> m, legal_moves_raised |-> FALSE] : m \in get_legal_moves(b) \cup {NoMove} }

\* Match._get_fallback_move: a legal move (the first that applies to a copy,
\* else the first of the list); None when the list is empty, and None when
\* get_legal_moves raises
get_fallback_move(b) ==
  { [move |-> m, legal_moves_raised |-> FALSE] :
      m \in IF get_legal_moves(b) = {} THEN {NoMove} ELSE get_legal_moves(b) }
  \cup { [move |-> NoMove, legal_moves_raised |-> TRUE] }

\* Match._get_agent_move: a key of the search's policy, or a random legal move
\* when the search raised or returned nothing; None when there is no legal move
get_agent_move(b) ==
  IF get_legal_moves(b) = {} THEN {NoMove} ELSE get_legal_moves(b)

\* the return of _get_validated_move reaches Match.play lines 92-95
ReturnMove(m) ==
  /\ move' = m
  /\ pc' = IF m = NoMove THEN "finalize" ELSE "apply"
  /\ attempt' = attempt

\* a failed attempt: the next one, or the fallback after the last
RetryOrFallback ==
  IF attempt = max_retries - 1
  THEN \E r \in get_fallback_move(board) :
         /\ ReturnMove(r.move)
         /\ legal_moves_raised' = r.legal_moves_raised
  ELSE /\ attempt' = attempt + 1
       /\ UNCHANGED <<move, pc, legal_moves_raised>>

\* Match._get_validated_move, one iteration of "for attempt in range(max_retries)"
Attempt ==
  /\ pc = "select"
  /\ attempt < max_retries
  /\ \/ \E m \in get_agent_move(board) :
          \/ m = NoMove /\ ReturnMove(m) /\ UNCHANGED legal_moves_raised
          \* no validator, or the move applies to a copy and validates
          \/ m # NoMove /\ ReturnMove(m) /\ UNCHANGED legal_moves_raised
          \* the validator rejects the move, or make_move on the copy raises
          \/ m # NoMove /\ enable_validation /\ RetryOrFallback
     \* _get_agent_move raises (get_legal_moves fails in its handler)
     \/ RetryOrFallback
  /\ UNCHANGED <<agent1, agent2, game_type, enable_validation, buffer_given, board,
                 move_count, experiences, final_reward, winner, LoggerVars,
                 SharedVars, quit_pending, LeagueVars, MCTSVars, TrainVars, add_log>>

\* Match._record_experience: the experience of the agent to move, reward pending;
\* the state tensor is kept as its side-to-move plane
record_experience(exps, b, agent, m) == Append(exps, <<b.turn, m, None, agent>>)

\* Match.play lines 97-109: record the experience, apply the move
ApplyMove ==
  /\ pc = "apply"
  /\ \E recorded \in BOOLEAN :
       \* board_to_tensor may raise inside _record_experience, which swallows it
       LET exps == IF recorded
                   THEN record_experience(experiences, board, current_agent, move)
                   ELSE experiences
       IN  /\ experiences' = exps
           /\ \/ \E b2 \in make_move(game_type, board) :
                    /\ board' = b2
                    /\ \/ /\ move_count' = move_count + 1
                          /\ pc' = "log_move"
                          /\ UNCHANGED <<final_reward, replay_buffer>>
                       \* copy_board raises at line 108, before the count
                       \/ /\ ReturnAfterError(exps)
                          /\ move_count' = move_count
              \* copy_board or make_move raises on the match board (lines 98,
              \* 105): the except clause
              \/ /\ ReturnAfterError(exps)
                 /\ UNCHANGED <<board, move_count>>
  /\ UNCHANGED <<agent1, agent2, game_type, enable_validation, buffer_given,
                 winner, attempt, move, legal_moves_raised, LoggerVars, agents,
                 quit_pending, LeagueVars, MCTSVars, TrainVars, add_log>>

\* Match.play lines 111-118: _log_move and _update_live_scores when the match
\* has a logger and a tracker (play_match passes both or neither); each
\* catches whatever log_move or update_current_scores raises
LogMove ==
  /\ pc = "log_move"
  /\ IF move_logger
     THEN \E failed \in BOOLEAN : logger_failed' = (logger_failed \/ failed)
     ELSE UNCHANGED logger_failed
  /\ pc' = "show"
  /\ UNCHANGED <<agent1, agent2, game_type, enable_validation, buffer_given, board,
                 move_count, experiences, final_reward, winner, attempt, move,
                 legal_moves_raised, move_logger, current_games,
                 start_game_log_called, end_game_log_calls,
                 SharedVars, quit_pending, LeagueVars, MCTSVars, TrainVars, add_log>>

\* Match.play lines 120-123: the move is printed and shown
ShowMoveResult ==
  /\ pc = "show"
  /\ \/ /\ pc' = "loop"
        /\ UNCHANGED <<final_reward, replay_buffer>>
     \* _show_move_result raises: the except clause
     \/ ReturnAfterError(experiences)
  /\ UNCHANGED <<agent1, agent2, game_type, enable_validation, buffer_given, board,
                 move_count, experiences, winner, attempt, move,
                 legal_moves_raised, LoggerVars, agents,
                 quit_pending, LeagueVars, MCTSVars, TrainVars, add_log>>

\* Match._finalize_match lines 266-272: the rewards of the experiences
assign_rewards(exps, reward, a1) ==
  [i \in 1..Len(exps) |->
     IF exps[i][4] = a1
     THEN <<exps[i][1], exps[i][2], reward, exps[i][4]>>
     ELSE <<exps[i][1], exps[i][2], -reward, exps[i][4]>>]

\* Match._finalize_match lines 274-279: the agents' records
record_results(ags, reward, a1, a2, game) ==
  record_game_result(record_game_result(ags, a1, game, reward > 0),
                     a2, game, reward < 0)

\* Match.play lines 125-130 with Match._finalize_match lines 263-279
Finalize ==
  /\ pc = "finalize"
  /\ \/ \E reward \in get_reward(game_type, board) :
        LET exps == assign_rewards(experiences, reward, agent1)
        IN  /\ winner' = get_winner(game_type, board)
            /\ final_reward' = reward
            /\ experiences' = exps
            /\ agents' = record_results(agents, reward, agent1, agent2, game_type)
            /\ pc' = "finalize_logging"
            /\ UNCHANGED replay_buffer
     \* get_winner or get_reward raises: the except clause
     \/ /\ ReturnAfterError(experiences)
        /\ UNCHANGED <<winner, experiences, agents>>
  /\ UNCHANGED <<agent1, agent2, game_type, enable_validation, buffer_given, board,
                 move_count, attempt, move, legal_moves_raised, LoggerVars,
                 quit_pending, LeagueVars, MCTSVars, TrainVars, add_log>>

\* Match._finalize_game_logging, called at line 282: one try block around
\* end_game_log, create_backup and record_game_result
FinalizeGameLogging ==
  /\ pc = "finalize_logging"
  /\ IF move_logger
     THEN \* GameResult or get_board_string raises before end_game_log
          \/ /\ logger_failed' = TRUE
             /\ UNCHANGED <<end_game_log_calls, current_games>>
          \* end_game_log is called
          \/ /\ end_game_log_calls' = end_game_log_calls + 1
             /\ \* it deletes the game (line 164); create_backup or
                \* record_game_result may fail after it
                \/ /\ current_games' = FALSE
                   /\ logger_failed' \in {logger_failed, TRUE}
                \* it fails on the log file before line 164 and returns
                \/ /\ current_games' = current_games
                   /\ logger_failed' = TRUE
     ELSE UNCHANGED <<end_game_log_calls, current_games, logger_failed>>
  /\ pc' = "add"
  /\ UNCHANGED <<agent1, agent2, game_type, enable_validation, buffer_given, board,
                 move_count, experiences, final_reward, winner, attempt, move,
                 legal_moves_raised, move_logger, start_game_log_called,
                 SharedVars, quit_pending, LeagueVars, MCTSVars, TrainVars, add_log>>

\* Match.play lines 132-139 after the try block completed
ReturnExperiences ==
  /\ pc = "add"
  /\ replay_buffer' = buffer_after_play(buffer_given, replay_buffer, experiences)
  /\ pc' = "returned"
  /\ UNCHANGED <<agent1, agent2, game_type, enable_validation, buffer_given, board,
                 move_count, experiences, final_reward, winner, attempt, move,
                 legal_moves_raised, LoggerVars, agents,
                 quit_pending, LeagueVars, MCTSVars, TrainVars, add_log>>

\* experiences a client put into the buffer before the match
PriorBuffers == { <<>>, << <<1, "m1", 100, "Alpha">> >> }

\* Match.__init__ for one pairing of the roster, with any prior buffer
InitMatch ==
  /\ pc = "constructed"
  /\ \E i \in 1..Len(games_config) :
       /\ agent1 = games_config[i].agent1
       /\ agent2 = games_config[i].agent2
       /\ game_type = games_config[i].game_type
  /\ enable_validation \in BOOLEAN
  /\ buffer_given = TRUE
  /\ board = NoBoard
  /\ move_count = 0
  /\ experiences = <<>>
  /\ final_reward = 0
  /\ winner = None
  /\ attempt = 0
  /\ move = NoMove
  /\ legal_moves_raised = FALSE
  /\ move_logger \in BOOLEAN
  /\ LoggerNotStarted
  /\ agents = [a \in AgentNames |-> NewAgent]
  /\ replay_buffer \in PriorBuffers
  /\ quit_pending = FALSE
  /\ LeagueConstructed
  /\ SearchNotStarted
  /\ TrainingNotStarted

NextMatch ==
  \/ StartGameLog
  \/ StartPlay
  \/ LoopTest
  \/ Attempt
  \/ ApplyMove
  \/ LogMove
  \/ ShowMoveResult
  \/ Finalize
  \/ FinalizeGameLogging
  \/ ReturnExperiences

SpecMatch == InitMatch /\ [][NextMatch]_vars

\* ------------------------------------------- Match._get_validated_move alone
\* _get_validated_move called for any position of either game, finished
\* positions included
InitValidatedMove ==
  /\ pc = "select"
  /\ \E i \in 1..Len(games_config) :
       /\ agent1 = games_config[i].agent1
       /\ agent2 = games_config[i].agent2
       /\ game_type = games_config[i].game_type
  /\ enable_validation \in BOOLEAN
  /\ buffer_given = TRUE
  /\ board \in Boards(game_type)
  /\ move_count = 0
  /\ experiences = <<>>
  /\ final_reward = 0
  /\ winner = None
  /\ attempt = 0
  /\ move = NoMove
  /\ legal_moves_raised = FALSE
  /\ move_logger = TRUE
  /\ LoggerNotStarted
  /\ agents = [a \in AgentNames |-> NewAgent]
  /\ replay_buffer = <<>>
  /\ quit_pending = FALSE
  /\ LeagueConstructed
  /\ SearchNotStarted
  /\ TrainingNotStarted

NextValidatedMove == Attempt

SpecValidatedMove == InitValidatedMove /\ [][NextValidatedMove]_vars

\* C14: _get_validated_move makes at most max_retries attempts and returns;
\* unless get_legal_moves itself raised, it returns None only for a position
\* without a legal move and a legal move of the position otherwise, whatever
\* failed in the search, on the test board or in the validator.
C14_ReturnsLegalMoveWithinRetries ==
  /\ attempt < max_retries
  /\ (pc # "select" /\ ~legal_moves_raised)
       => IF get_legal_moves(board) = {} THEN move = NoMove
          ELSE move \in get_legal_moves(board)

\* the call returned a legal move after two attempts had failed
C14_ReturnedAfterFailures ==
  /\ pc = "apply"
  /\ attempt = max_retries - 1
  /\ move \in get_legal_moves(board)
  /\ ~legal_moves_raised

\* ------------------------------------------------------ claims on the match
\* xs is the tail of buf
IsSuffix(xs, buf) ==
  /\ Len(xs) <= Len(buf)
  /\ SubSeq(buf, Len(buf) - Len(xs) + 1, Len(buf)) = xs

\* C1: after a roster match that produced at least one experience, all of its
\* experiences (the last buffer_capacity of them) are the newest entries of
\* the replay buffer, whatever the buffer held before, the empty buffer included.
C1_ExperiencesReachBuffer ==
  (pc = "returned" /\ Len(experiences) >= 1)
    => IsSuffix(LastN(experiences, buffer_capacity), replay_buffer)

\* C4: after a match finalizes, an experience recorded for a move of agent1
\* (player 1 to move) carries +final_reward and one recorded for a move of
\* agent2 (player -1 to move) carries -final_reward, for every pairing of the
\* roster, Champion self-play included.
C4_RewardSignPerActingAgent ==
  (pc = "returned" /\ winner # None)
    => \A i \in 1..Len(experiences) :
         experiences[i][3] =
           IF experiences[i][1] = 1 THEN final_reward ELSE -final_reward

\* C8: a match configured with max_moves_per_game = N applies at most N moves
\* to its board.
C8_AtMostConfiguredMoves == move_count <= max_moves_per_game

\* C9: when Match.play returns, the number of experiences equals the number
\* of moves applied to the board.
C9_ExperiencesEqualMoves ==
  pc = "returned" => Len(experiences) = move_count

\* C10: a match that stops while the game is not over ends non-decisive:
\* final_reward is 0 and no agent is credited with a win.
C10_EarlyStopIsNonDecisive ==
  (pc = "returned" /\ ~is_game_over(board))
    => /\ final_reward = 0
       /\ \A a \in AgentNames : agents[a].wins[game_type] = 0

\* C29: every experience in the replay buffer has a numeric reward, on every
\* path of Match.play, the except path included: the pending reward (None)
\* never enters the buffer.
C29_NoPendingRewardInBuffer ==
  \A i \in 1..Len(replay_buffer) : replay_buffer[i][3] # None

\* ------------------------------------------------- LeagueManager.run_training
\* bounds: the configuration of the league, scaled down
\* run_training(num_generations=100)
NumGenerations == 2
\* config['batch_size'] (64 by default)
batch_size == 2
\* config['training_steps_per_generation'] (50 by default)
training_steps_per_generation == 2
\* config['challenger_interval'] (5 by default)
challenger_interval == 2
\* config['wildcard_interval'] (3 by default)
wildcard_interval == 1

\* program constants
\* config['challenger_threshold'] = 0.55, in hundredths
challenger_threshold == 55
\* evaluate_agents(..., num_games=20) of the challenger phase
challenger_num_games == 20
\* evaluate_agents(..., num_games=10) of the wildcard phase
wildcard_num_games == 10
\* @handle_errors(max_retries=2) of _run_training_phase_with_progress
training_phase_max_retries == 2
\* @handle_errors(max_retries=1) of _run_challenger_phase_with_progress
challenger_phase_max_retries == 1
\* @handle_errors(max_retries=1) of _run_wildcard_phase_with_progress
wildcard_phase_max_retries == 1

\* agents_to_train = [self.champion, self.alpha, self.beta]
agents_to_train == <<"Champion", "Alpha", "Beta">>

\* record_training_iteration is a method of TrainingAgent only; ChampionAgent
\* and AIAgent do not define it
has_record_training_iteration(agent) == agent \in {"Alpha", "Beta"}

\* the positions of run_training inside a generation
Running == {"games", "training", "challenger", "wildcard", "end"}

\* run_training lines 446-448: the phase after the challenger phase
after_challenger(gen) ==
  IF (gen + 1) % wildcard_interval = 0 THEN "wildcard" ELSE "end"

\* run_training lines 442-444: the phase after the training phase
after_training(gen) ==
  IF (gen + 1) % challenger_interval = 0 THEN "challenger" ELSE after_challenger(gen)

\* pygame.event.get() inside a match or an evaluation (MCTS._process_events,
\* Match._update_visualization) empties the event queue and the callers drop
\* the result; an event posted after the last such call stays in the queue
events_after_search(pending) == IF pending THEN {TRUE, FALSE} ELSE {FALSE}

\* handle_errors.wrapper after func raised: the next attempt, or the error is
\* raised again into run_training, whose "except Exception" ends the loop
PhaseRaises(retries) ==
  IF phase_attempt < retries
  THEN /\ phase_attempt' = phase_attempt + 1
       /\ lpc' = lpc
  ELSE /\ phase_attempt' = phase_attempt
       /\ lpc' = "failed"

\* LeagueManager.load_checkpoint, called by a client before run_training: each
\* agent's load_model swallows its own failure; the statistics file gives
\* generation and champion_history
CheckpointFiles == { {"Champion", "Alpha", "Beta"}, {"Alpha"} }
CheckpointHistory == << [generation |-> 0, new_champion |-> "Beta"] >>

LoadCheckpoint ==
  /\ lpc = "constructed"
  /\ next_weight = 2
  /\ \E files \in CheckpointFiles, stats \in BOOLEAN :
       /\ weights' = [a \in AgentNames |->
                        IF a = "Champion" /\ a \in files THEN next_weight
                        ELSE IF a = "Alpha" /\ a \in files THEN next_weight + 1
                        ELSE IF a = "Beta" /\ a \in files THEN next_weight + 2
                        ELSE weights[a]]
       /\ agents' = [a \in AgentNames |-> IF a \in files THEN NewAgent ELSE agents[a]]
       /\ generation' = IF stats THEN NumGenerations - 1 ELSE generation
       /\ champion_history' = IF stats THEN CheckpointHistory ELSE champion_history
       /\ loaded_generation' = IF stats THEN NumGenerations - 1 ELSE loaded_generation
  /\ next_weight' = next_weight + 3
  /\ UNCHANGED <<MatchVars, replay_buffer, quit_pending, lpc, match_index,
                 phase_attempt, agent_idx, step, training_iterations, defense_record,
                 promotion_history, best_agent, win_rate, baseline_scores, quit_gen,
                 matches_returned, training_finished, challenger_phases_run,
                 MCTSVars, TrainVars, add_log>>

\* a client puts an experience into league.replay_buffer before run_training
SeedBuffer ==
  /\ lpc = "constructed"
  /\ replay_buffer = <<>>
  /\ \E exps \in PriorBuffers \ {<<>>} : replay_buffer' = add(replay_buffer, exps)
  /\ UNCHANGED <<MatchVars, agents, quit_pending, LeagueVars, MCTSVars, TrainVars, add_log>>

\* run_training lines 415-434: the loop starts with generation 0
RunTraining ==
  /\ lpc = "constructed"
  /\ generation' = 0
  /\ lpc' = "games"
  /\ match_index' = 1
  /\ matches_returned' = 0
  /\ training_finished' = FALSE
  /\ UNCHANGED <<MatchVars, SharedVars, quit_pending, phase_attempt, agent_idx, step,
                 weights, next_weight, training_iterations, defense_record,
                 promotion_history, champion_history, best_agent, win_rate,
                 baseline_scores, quit_gen, loaded_generation, challenger_phases_run,
                 MCTSVars, TrainVars, add_log>>

\* the results of a roster match, seen from the league: the final reward
MatchRewards == {100, 0}

\* mutant: the loop over the roster ends one match early
roster_exhausted_early(i) == i >= Len(games_config) - 1

\* "for i, (...) in enumerate(games_config)": the match at index i (from 1)
\* was the last of the roster
roster_exhausted(i) == i = Len(games_config)

\* _run_game_generation_with_progress, one iteration of its loop: a match of
\* the roster is played with the league's buffer; it records one experience
PlayRosterMatch ==
  /\ lpc = "games"
  /\ LET g == games_config[match_index] IN
       \E reward \in MatchRewards :
         LET exps == assign_rewards(
                       record_experience(<<>>, NoBoard, g.agent1, "m1"),
                       reward, g.agent1)
         IN  /\ agents' = record_results(agents, reward, g.agent1, g.agent2,
                                         g.game_type)
             /\ replay_buffer' = buffer_after_play(TRUE, replay_buffer, exps)
  /\ quit_pending' \in events_after_search(quit_pending)
  /\ matches_returned' = matches_returned + 1
  /\ IF ~roster_exhausted(match_index)
     THEN /\ match_index' = match_index + 1
          /\ UNCHANGED <<lpc, phase_attempt, agent_idx, step>>
     ELSE /\ match_index' = match_index
          /\ lpc' = "training"
          /\ phase_attempt' = 0
          /\ agent_idx' = 0
          /\ step' = 0
  /\ UNCHANGED <<MatchVars, generation, weights, next_weight, training_iterations,
                 defense_record, promotion_history, champion_history, best_agent,
                 win_rate, baseline_scores, quit_gen, training_finished,
                 loaded_generation, challenger_phases_run,
                 MCTSVars, TrainVars, add_log>>

\* _run_training_phase_with_progress lines 878-882: too few experiences
SkipTraining ==
  /\ lpc = "training"
  /\ buffer_len(replay_buffer) < batch_size
  /\ lpc' = after_training(generation)
  /\ phase_attempt' = 0
  /\ training_finished' = TRUE
  /\ UNCHANGED <<MatchVars, SharedVars, quit_pending, generation, match_index,
                 agent_idx, step, weights, next_weight, training_iterations,
                 defense_record, promotion_history, champion_history, best_agent,
                 win_rate, baseline_scores, quit_gen, matches_returned,
                 loaded_generation, challenger_phases_run,
                 MCTSVars, TrainVars, add_log>>

\* _run_training_phase_with_progress lines 900-923: one training step of the
\* agent at agent_idx. train_step runs when the sampled batch has experiences
\* of a game; then agent.record_training_iteration is called
TrainStep ==
  /\ lpc = "training"
  /\ buffer_len(replay_buffer) >= batch_size
  /\ agent_idx < Len(agents_to_train)
  /\ LET agent == agents_to_train[agent_idx + 1] IN
       \E trained \in BOOLEAN :
         /\ weights' = IF trained THEN [weights EXCEPT ![agent] = next_weight]
                       ELSE weights
         /\ next_weight' = IF trained THEN next_weight + 1 ELSE next_weight
         /\ IF has_record_training_iteration(agent)
            THEN /\ training_iterations' = [training_iterations EXCEPT ![agent] = @ + 1]
                 /\ IF step + 1 < training_steps_per_generation
                    THEN /\ step' = step + 1
                         /\ UNCHANGED <<agent_idx, lpc, phase_attempt,
                                        training_finished>>
                    ELSE /\ step' = 0
                         /\ agent_idx' = agent_idx + 1
                         /\ lpc' = IF agent_idx + 1 = Len(agents_to_train)
                                   THEN after_training(generation) ELSE lpc
                         /\ phase_attempt' = IF agent_idx + 1 = Len(agents_to_train)
                                             THEN 0 ELSE phase_attempt
                         /\ training_finished' =
                              (agent_idx + 1 = Len(agents_to_train))
            \* AttributeError: the phase function raises into its wrapper
            ELSE /\ PhaseRaises(training_phase_max_retries)
                 /\ agent_idx' = 0
                 /\ step' = 0
                 /\ UNCHANGED <<training_iterations, training_finished>>
  /\ UNCHANGED <<MatchVars, SharedVars, quit_pending, generation, match_index,
                 defense_record, promotion_history, champion_history, best_agent,
                 win_rate, baseline_scores, quit_gen, matches_returned,
                 loaded_generation, challenger_phases_run,
                 MCTSVars, TrainVars, add_log>>

\* AIAgent.get_win_rate as a fraction <<wins, games>>; 0 when no game was played
get_win_rate(ags, a, game) ==
  IF ags[a].games_played[game] = 0 THEN <<0, 1>>
  ELSE <<ags[a].wins[game], ags[a].games_played[game]>>

\* LeagueManager._select_best_training_agent: Alpha when the mean of its two
\* win rates is strictly above Beta's, else Beta (fractions cross-multiplied)
select_best_training_agent(ags) ==
  LET ac == get_win_rate(ags, "Alpha", "chess")
      ak == get_win_rate(ags, "Alpha", "checkers")
      bc == get_win_rate(ags, "Beta", "chess")
      bk == get_win_rate(ags, "Beta", "checkers")
      alpha_num == ac[1] * ak[2] + ak[1] * ac[2]
      alpha_den == ac[2] * ak[2]
      beta_num == bc[1] * bk[2] + bk[1] * bc[2]
      beta_den == bc[2] * bk[2]
  IN  IF alpha_num * beta_den > beta_num * alpha_den THEN "Alpha" ELSE "Beta"

\* the challenger's wins per game type in an evaluation of num_games games
\* per type: just above half of the games in both, or one more in chess
EvalWins(num_games) ==
  { [g \in GameTypes |-> num_games \div 2 + 1],
    [g \in GameTypes |-> IF g = "chess" THEN num_games \div 2 + 2
                                       ELSE num_games \div 2 + 1] }

\* Competition.evaluate_agents: num_games matches per game type without a
\* replay buffer; w[game] of them won by the challenger, the others lost.
\* Each match records its result with both agents (_finalize_match)
record_evaluation(ags, challenger, champion, num_games, w) ==
  [ags EXCEPT
     ![challenger] = [wins |-> [g \in GameTypes |-> ags[challenger].wins[g] + w[g]],
                      games_played |-> [g \in GameTypes |->
                                          ags[challenger].games_played[g] + num_games]],
     ![champion] = [wins |-> [g \in GameTypes |->
                                ags[champion].wins[g] + (num_games - w[g])],
                    games_played |-> [g \in GameTypes |->
                                        ags[champion].games_played[g] + num_games]]]

\* mutant: the promotion also happens at the threshold
promotes_at_threshold(wins, games) == wins * 100 >= challenger_threshold * games

\* "if win_rate > self.config['challenger_threshold']", win_rate = wins / games
promotes(wins, games) == wins * 100 > challenger_threshold * games

\* AIAgent.copy_weights_from
copy_weights_from(w, to, from) == [w EXCEPT ![to] = w[from]]

\* lines 977-981: promote_from_challenger, then Alpha and Beta copy the Champion
promoted_weights(w, best) ==
  copy_weights_from(
    copy_weights_from(copy_weights_from(w, "Champion", best), "Alpha", "Champion"),
    "Beta", "Champion")

\* mutant: the matches of an evaluation are given the league's buffer
evaluation_buffer_given_league == TRUE

\* evaluate_agents lines 552-554: play_match is called without replay_buffer,
\* so Match.play gets None
evaluation_buffer_given == FALSE

\* what the buffer holds after a match of an evaluation in which agent a1
\* recorded an experience (Match.play lines 135-137)
buffer_after_evaluation(buf, a1) ==
  buffer_after_play(evaluation_buffer_given, buf,
                    assign_rewards(record_experience(<<>>, NoBoard, a1, "m1"),
                                   100, a1))

\* _run_challenger_phase_with_progress, one execution by its wrapper
ChallengerPhase ==
  /\ lpc = "challenger"
  /\ LET best == select_best_training_agent(agents) IN
       /\ replay_buffer' = buffer_after_evaluation(replay_buffer, best)
       /\ \/ \E w \in EvalWins(challenger_num_games) :
               LET wins == w["chess"] + w["checkers"]
                   games == Cardinality(GameTypes) * challenger_num_games
               IN  /\ agents' = record_evaluation(agents, best, "Champion",
                                                  challenger_num_games, w)
                   /\ best_agent' = best
                   /\ win_rate' = <<wins, games>>
                   /\ IF promotes(wins, games)
                      THEN \/ /\ weights' = promoted_weights(weights, best)
                              /\ promotion_history' =
                                   Append(promotion_history, generation)
                              /\ champion_history' =
                                   Append(champion_history,
                                          [generation |-> generation,
                                           new_champion |-> best])
                              /\ UNCHANGED defense_record
                              /\ lpc' = after_challenger(generation)
                              /\ phase_attempt' = 0
                           \* alpha.copy_weights_from raises at line 980, after
                           \* promote_from_challenger
                           \/ /\ weights' = copy_weights_from(weights, "Champion", best)
                              /\ promotion_history' =
                                   Append(promotion_history, generation)
                              /\ UNCHANGED <<champion_history, defense_record>>
                              /\ PhaseRaises(challenger_phase_max_retries)
                      ELSE /\ defense_record' = defense_record + 1
                           /\ UNCHANGED <<weights, promotion_history, champion_history>>
                           /\ lpc' = after_challenger(generation)
                           /\ phase_attempt' = 0
          \* a match of the evaluation raises (Match.play before its try block)
          \/ /\ PhaseRaises(challenger_phase_max_retries)
             /\ UNCHANGED <<agents, best_agent, win_rate, weights, promotion_history,
                            champion_history, defense_record>>
  /\ challenger_phases_run' =
       IF lpc' # "challenger" THEN challenger_phases_run + 1 ELSE challenger_phases_run
  /\ quit_pending' \in events_after_search(quit_pending)
  /\ UNCHANGED <<MatchVars, generation, match_index, agent_idx, step,
                 next_weight, training_iterations, baseline_scores, quit_gen,
                 matches_returned, training_finished, loaded_generation, MCTSVars,
                 TrainVars, add_log>>

\* _run_wildcard_phase_with_progress: the Wildcard gets a new random network,
\* the Champion is evaluated against it, the score is recorded
WildcardPhase ==
  /\ lpc = "wildcard"
  /\ \/ \E w \in EvalWins(wildcard_num_games) :
              /\ agents' = record_evaluation(agents, "Champion", "Wildcard",
                                             wildcard_num_games, w)
              /\ baseline_scores' = Append(baseline_scores, generation)
              /\ lpc' = "end"
              /\ phase_attempt' = 0
     \/ /\ PhaseRaises(wildcard_phase_max_retries)
        /\ UNCHANGED <<agents, baseline_scores>>
  /\ replay_buffer' = buffer_after_evaluation(replay_buffer, "Champion")
  /\ weights' = [weights EXCEPT !["Wildcard"] = next_weight]
  /\ next_weight' = next_weight + 1
  /\ quit_pending' \in events_after_search(quit_pending)
  /\ UNCHANGED <<MatchVars, generation, match_index, agent_idx, step,
                 training_iterations, defense_record, promotion_history,
                 champion_history, best_agent, win_rate, quit_gen,
                 matches_returned, training_finished, loaded_generation,
                 challenger_phases_run, MCTSVars, TrainVars, add_log>>

\* run_training lines 450-463: the end of a generation. process_events reads
\* the event queue; a QUIT event breaks the loop, else the next generation
\* starts or the loop is exhausted
EndOfGeneration ==
  /\ lpc = "end"
  /\ quit_pending' = FALSE
  /\ IF quit_pending
     THEN /\ lpc' = "interrupted"
          /\ UNCHANGED <<generation, match_index, matches_returned,
                         training_finished>>
     ELSE IF generation + 1 < NumGenerations
     THEN /\ generation' = generation + 1
          /\ lpc' = "games"
          /\ match_index' = 1
          /\ matches_returned' = 0
          /\ training_finished' = FALSE
     ELSE /\ lpc' = "finished"
          /\ UNCHANGED <<generation, match_index, matches_returned,
                         training_finished>>
  /\ UNCHANGED <<MatchVars, SharedVars, phase_attempt, agent_idx, step, weights,
                 next_weight, training_iterations, defense_record, promotion_history,
                 champion_history, best_agent, win_rate, baseline_scores, quit_gen,
                 loaded_generation, challenger_phases_run,
                 MCTSVars, TrainVars, add_log>>

\* the user closes the window while a generation runs: pygame queues a QUIT
UserQuit ==
  /\ lpc \in Running
  /\ quit_gen = {}
  /\ quit_pending' = TRUE
  /\ quit_gen' = {generation}
  /\ UNCHANGED <<MatchVars, SharedVars, lpc, generation, match_index, phase_attempt,
                 agent_idx, step, weights, next_weight, training_iterations,
                 defense_record, promotion_history, champion_history, best_agent,
                 win_rate, baseline_scores, matches_returned, training_finished,
                 loaded_generation, challenger_phases_run,
                 MCTSVars, TrainVars, add_log>>

\* LeagueManager.__init__: fresh agents, an empty buffer, no match under way
InitLeague ==
  /\ pc = "constructed"
  /\ agent1 = games_config[1].agent1
  /\ agent2 = games_config[1].agent2
  /\ game_type = games_config[1].game_type
  /\ enable_validation = TRUE
  /\ buffer_given = TRUE
  /\ board = NoBoard
  /\ move_count = 0
  /\ experiences = <<>>
  /\ final_reward = 0
  /\ winner = None
  /\ attempt = 0
  /\ move = NoMove
  /\ legal_moves_raised = FALSE
  /\ move_logger = TRUE
  /\ LoggerNotStarted
  /\ agents = [a \in AgentNames |-> NewAgent]
  /\ replay_buffer = <<>>
  /\ quit_pending = FALSE
  /\ LeagueConstructed
  /\ SearchNotStarted
  /\ TrainingNotStarted

NextLeague ==
  \/ LoadCheckpoint
  \/ SeedBuffer
  \/ RunTraining
  \/ PlayRosterMatch
  \/ SkipTraining
  \/ TrainStep
  \/ ChallengerPhase
  \/ WildcardPhase
  \/ EndOfGeneration
  \/ UserQuit

SpecLeague == InitLeague /\ [][NextLeague]_vars

\* ----------------------------------------------------- claims on the league
\* C2: when the training phase is left in a generation whose buffer holds at
\* least batch_size experiences, the loops over Champion, Alpha and Beta have
\* run all their training steps and the generation is in its next phase.
C2_TrainingRunsToCompletion ==
  [][ (lpc = "training" /\ buffer_len(replay_buffer) >= batch_size
         /\ lpc' # "training")
        => /\ agent_idx' = Len(agents_to_train)
           /\ lpc' = after_training(generation) ]_vars

\* C7: once the user has asked to quit during generation g, the league never
\* starts a generation after g.
C7_QuitStopsAfterGeneration ==
  \A g \in quit_gen : generation <= g

\* the challenger phase has just run to its end
ChallengerPhaseDone == lpc = "challenger" /\ lpc' \in {"wildcard", "end"}

\* C3: when the challenger phase ends with a win rate strictly above
\* challenger_threshold, the Champion has the weights the challenger had before
\* the phase and Alpha and Beta have the new Champion's weights; with a win
\* rate at or below the threshold the Champion's weights are unchanged and its
\* defense wins grow by exactly 1.
C3_PromotionOrDefense ==
  [][ ChallengerPhaseDone =>
        IF win_rate'[1] * 100 > challenger_threshold * win_rate'[2]
        THEN /\ weights'["Champion"] = weights[best_agent']
             /\ weights'["Alpha"] = weights'["Champion"]
             /\ weights'["Beta"] = weights'["Champion"]
        ELSE /\ weights'["Champion"] = weights["Champion"]
             /\ defense_record' = defense_record + 1 ]_vars

\* a promotion has replaced the Champion's weights by different ones, after an
\* evaluation above the threshold
C3_Promoted ==
  /\ lpc \in {"wildcard", "end"}
  /\ win_rate[2] > 0
  /\ win_rate[1] * 100 > challenger_threshold * win_rate[2]
  /\ weights["Champion"] # 0
  /\ weights["Champion"] # 2
  /\ Len(promotion_history) = 1

\* C11: within a generation the phases are ordered with a barrier: while the
\* roster is played no training has finished; the training phase is entered
\* only after every roster match of the generation has returned; a challenger
\* evaluation starts only after the training phase has returned.
C11_PhasesInOrder ==
  /\ lpc = "games" => (~training_finished /\ matches_returned = match_index - 1)
  /\ lpc = "training"
       => (matches_returned = Len(games_config) /\ ~training_finished)
  /\ lpc = "challenger"
       => (matches_returned = Len(games_config) /\ training_finished)

\* the challenger phase of the second generation is about to start, after
\* the training phase of that generation returned
C11_ChallengerAfterTraining ==
  /\ lpc = "challenger"
  /\ generation = challenger_interval - 1
  /\ matches_returned = Len(games_config)
  /\ training_finished

\* the final attempt of the challenger phase has raised: the phase is left
\* with neither a promotion nor a defense recorded
ChallengerPhaseRaised ==
  /\ lpc = "challenger"
  /\ lpc' # "challenger"
  /\ defense_record' = defense_record
  /\ promotion_history' = promotion_history

\* C12: when the challenger phase raises in generation g, no promotion is
\* applied and the league keeps running: run_training goes on to the
\* remaining phases of g.
C12_ChallengerErrorKeepsLeagueRunning ==
  [][ ChallengerPhaseRaised
        => /\ weights' = weights
           /\ lpc' = after_challenger(generation) ]_vars

\* C13: after load_checkpoint has restored generation g, the league's
\* generation counter never takes a value below g: run_training continues at g.
C13_ContinuesAtLoadedGeneration ==
  loaded_generation # None => generation >= loaded_generation

\* -------------------------------------------------------------- MCTS.search
\* bound: MCTS(game, net, num_simulations=25)
num_simulations == 3
\* program constant: "if sim_idx % 5 == 0" before _process_events
process_events_interval == 5

\* the order of the list get_legal_moves returns
legal_moves_list(b) == IF is_game_over(b) THEN <<>> ELSE <<"m1", "m2">>

\* the values the network gives for a position (value head, scaled by 100)
NetValues == {-50, 50}

\* game.make_move on a copy of the board, inside the tree: the engine is
\* deterministic, the same move on the same position gives the same position:
\* here m1 keeps the game going and m2 ends it
search_make_move(game, b, m) ==
  IF m = "m1" THEN Board(-b.turn, "ongoing", 0, <<b.p1, b.p2, b.k1, b.k2>>)
  ELSE IF game = "chess" THEN Board(-b.turn, "checkmate", 0, NoPieces)
  ELSE Board(-b.turn, "won1", 0, <<3, 0, 1, 0>>)

\* the policy head's output for the legal moves of a position, in the order
\* of the list (at the root after the Dirichlet noise), as <<num, den>>
NetPolicies ==
  { << <<2, 3>>, <<1, 3>> >>, << <<1, 4>>, <<3, 4>> >> }

\* mutant: the ones are not divided by the number of moves
uniform_policy_not_normalised(n) == [i \in 1..n |-> <<1, 1>>]

\* np.ones(len(legal_moves)) / len(legal_moves)
uniform_policy(n) == [i \in 1..n |-> <<1, n>>]

\* MCTSNode.__init__: visits 0, value 0. MCTSNode.value is a float; the model
\* keeps it exact, as the fraction <<numerator, denominator>> of hundredths
MCTSNode(b, ref, prior) ==
  [board |-> b, board_ref |-> ref, visits |-> 0, value |-> <<0, 1>>, prior |-> prior]

\* Boards are mutable objects. A node holds a reference to its board object
\* (board_ref) and the model keeps next to it the position that object shows
\* (board). The object search was called with is CallerBoard, the copy made
\* for the child at path q is named q, the copy _simulate makes is SimBoard.
CallerBoard == <<"board">>
SimBoard == <<"sim_board">>

\* mutant: the "copy" is the same object
copy_board_shares(ref, fresh) == ref

\* game.copy_board(board), that is board.copy(): a new object, named fresh,
\* showing the same position
copy_board(ref, fresh) == fresh

\* game.make_move(board, move) on the object ref: the move is pushed in place,
\* every node that holds the object shows the new position
make_move_in_place(t, ref, game, m) ==
  [q \in DOMAIN t |->
     IF t[q].board_ref = ref
     THEN [t[q] EXCEPT !.board = search_make_move(game, @, m)]
     ELSE t[q]]

RECURSIVE make_moves_in_place(_, _, _, _)
\* _simulate lines 135-137: the moves of the selected path, pushed one after
\* the other on the object ref
make_moves_in_place(t, ref, game, ms) ==
  IF ms = <<>> THEN t
  ELSE make_moves_in_place(make_move_in_place(t, ref, game, Head(ms)), ref, game,
                           Tail(ms))

\* the moves of the children of the node at path p
children(t, p) == { m \in Moves : Append(p, m) \in DOMAIN t }

\* MCTSNode.is_leaf
is_leaf(t, p) == children(t, p) = {}

\* lines 42-45 for one move of the list: unless the move has a child, the
\* node's board is copied, the move is made on the copy and the copy becomes
\* the board of the new child
expand_move(t, p, game, m, prob) ==
  LET q == Append(p, m)
      board_copy == copy_board(t[p].board_ref, q)
      with_child == [x \in DOMAIN t \cup {q} |->
                       IF x = q THEN MCTSNode(t[p].board, board_copy, prob) ELSE t[x]]
  IN  IF q \in DOMAIN t THEN t
      ELSE make_move_in_place(with_child, board_copy, game, m)

RECURSIVE expand_moves(_, _, _, _, _, _)
\* the loop of expand over the first k entries of moves, from entry i
expand_moves(t, p, game, moves, pol, ik) ==
  IF ik[1] > ik[2] THEN t
  ELSE expand_moves(expand_move(t, p, game, moves[ik[1]], pol[ik[1]]), p, game,
                    moves, pol, <<ik[1] + 1, ik[2]>>)

\* MCTSNode.expand(policy, legal_moves) on the node at path p that got through
\* the first k moves of the list
expand(t, p, game, k, pol) ==
  expand_moves(t, p, game, legal_moves_list(t[p].board), pol, <<1, k>>)

\* q is the path of p or of one of its ancestors
IsAncestorOrSelf(q, p) == Len(q) <= Len(p) /\ SubSeq(p, 1, Len(q)) = q

\* mutant: the values are added up, not averaged
running_average_sum(value, x, visits) == <<value[1] + x * value[2], value[2]>>

\* line 50: self.value += (value - self.value) / self.visits, for the node's
\* value num/den, the backed-up value x and the visits already incremented:
\* num/den + (x - num/den) / visits
running_average(value, x, visits) ==
  <<value[1] * visits + (x * value[2] - value[1]), value[2] * visits>>

\* lines 49-50 on one node
visit(node, x) ==
  [node EXCEPT !.visits = @ + 1,
               !.value = running_average(@, x, node.visits + 1)]

\* mutant: the value is not passed on to the parent
backpropagate_leaf_only(t, p, value) == [t EXCEPT ![p] = visit(@, value)]

\* mutant: the parent gets the value with the same sign
backpropagate_same_sign(t, p, value) ==
  [q \in DOMAIN t |-> IF IsAncestorOrSelf(q, p) THEN visit(t[q], value) ELSE t[q]]

\* MCTSNode.backpropagate(value) from the node at path p: every node up to the
\* root gets one more visit, the value changes sign at each level
backpropagate(t, p, value) ==
  [q \in DOMAIN t |->
     IF IsAncestorOrSelf(q, p)
     THEN visit(t[q], IF (Len(p) - Len(q)) % 2 = 0 THEN value ELSE -value)
     ELSE t[q]]

\* mutant: the selection may stop at any node of the tree
Leaves_any_node(t) == DOMAIN t

\* the leaves the selection phase can end in: select() takes the child with
\* the best Q + c_puct * prior * sqrt(visits) / (1 + visits); priors come from
\* the network and the noise, so any child can be the best one
Leaves(t) == { p \in DOMAIN t : is_leaf(t, p) }

RECURSIVE SumVisits(_, _)
\* sum(child.visits for child in root.children.values())
SumVisits(t, ms) ==
  IF ms = {} THEN 0
  ELSE LET m == CHOOSE x \in ms : TRUE
       IN  t[<<m>>].visits + SumVisits(t, ms \ {m})

\* mutant: only the moves that were visited are returned
visit_policy_visited_only(t) ==
  LET ms == { m \in children(t, <<>>) : t[<<m>>].visits > 0 }
  IN  [m \in ms |-> <<t[<<m>>].visits, SumVisits(t, ms)>>]

\* MCTS.search lines 113-127: the returned mapping, each probability kept as
\* <<numerator, denominator>>
visit_policy(t) ==
  LET ms == children(t, <<>>)
      total_visits == SumVisits(t, ms)
  IN  IF ms = {} THEN <<>>
      ELSE IF total_visits = 0 THEN [m \in ms |-> <<1, Cardinality(ms)>>]
      ELSE [m \in ms |-> <<t[<<m>>].visits, total_visits>>]

\* the positions search is called with
SearchRoots(game) ==
  { b \in Boards(game) :
      b.turn = 1 /\ b.status \in {"ongoing", "draw"} /\ b.material = 0
        /\ b.p1 = b.p2 }

\* MCTS.search lines 78-95: the ways the root expansion can go for a root
\* with n legal moves. _evaluate_position may raise before any child exists;
\* expand may raise (copy_board, make_move) after k children. The except
\* clause expands with the uniform policy, skipping the children that exist,
\* and may raise itself after j children, out of search
RootExpansions(root, game, n) ==
  \* the evaluation and the expansion succeed
  { [tree |-> expand(root, <<>>, game, n, pol), failures |-> {}, spc |-> "simulate"] :
      pol \in NetPolicies }
  \cup
  \* the evaluation raises, the uniform expansion succeeds
  { [tree |-> expand(root, <<>>, game, n, uniform_policy(n)),
     failures |-> {"evaluation"}, spc |-> "simulate"] }
  \cup
  \* expand raises after k children, the uniform expansion makes the others
  { [tree |-> expand(expand(root, <<>>, game, k, pol), <<>>, game, n,
                     uniform_policy(n)),
     failures |-> {"expand"}, spc |-> "simulate"] :
      pol \in NetPolicies, k \in 0..(n - 1) }
  \cup
  \* expand raises after k children, the uniform expansion raises after j
  { [tree |-> expand(expand(root, <<>>, game, kj[1], pol), <<>>, game, kj[2],
                     uniform_policy(n)),
     failures |-> {"expand"}, spc |-> "raised"] :
      pol \in NetPolicies,
      kj \in { x \in (0..(n - 1)) \X (0..(n - 1)) : x[1] <= x[2] } }
  \cup
  \* the evaluation raises, the uniform expansion raises after j children
  { [tree |-> expand(root, <<>>, game, j, uniform_policy(n)),
     failures |-> {"evaluation", "expand"}, spc |-> "raised"] :
      j \in 0..(n - 1) }

\* MCTS.search lines 64-95: the root, its legal moves, the root expansion
StartSearch ==
  /\ spc = "idle"
  /\ \E b \in SearchRoots(game_type) :
       /\ root_board' = b
       /\ LET root == [p \in {<<>>} |-> MCTSNode(b, CallerBoard, <<1, 1>>)]
              n == Len(legal_moves_list(b))
          IN  IF n = 0
              THEN /\ tree' = root
                   /\ policy' = <<>>
                   /\ spc' = "returned"
                   /\ root_failures' = {}
              ELSE /\ policy' = policy
                   /\ \E e \in RootExpansions(root, game_type, n) :
                        /\ tree' = e.tree
                        /\ root_failures' = e.failures
                        /\ spc' = e.spc
  /\ sim_idx' = 0
  /\ completed' = 0
  /\ failed_sims' = 0
  /\ UNCHANGED <<MatchVars, SharedVars, quit_pending, LeagueVars, evaluation_failed,
                 bp_node, bp_value, TrainVars, add_log>>

\* MCTS._simulate lines 139-151 at the leaf p: the tree and the value to back up
\* (or "raised" when get_reward raises)
Evaluations(t, p, game) ==
  LET b == t[p].board
      n == Len(legal_moves_list(b))
  IN  IF is_game_over(b)
      THEN { [tree |-> t, value |-> v, raised |-> r, evaluation_failed |-> FALSE] :
               v \in get_reward(game, b), r \in BOOLEAN }
      ELSE { [tree |-> expand(t, p, game, n, pol), value |-> v, raised |-> FALSE,
              evaluation_failed |-> FALSE] :
               v \in NetValues, pol \in NetPolicies }
           \cup
           \* the evaluation or expand raised after k children: get_reward
           { [tree |-> expand(t, p, game, k, pol), value |-> v, raised |-> r,
              evaluation_failed |-> TRUE] :
               k \in 0..(n - 1), pol \in NetPolicies,
               v \in get_reward(game, b), r \in BOOLEAN }

\* mutant: the handler lets the error out of search
on_simulation_error_reraise(idx) == [spc |-> "raised", sim_idx |-> idx]

\* MCTS.search lines 106-108: "except Exception ... continue", the loop goes
\* on with the next index
on_simulation_error(idx) == [spc |-> "simulate", sim_idx |-> idx + 1]

\* an iteration of the simulation loop raised
SimulationRaised ==
  /\ spc' = on_simulation_error(sim_idx).spc
  /\ sim_idx' = on_simulation_error(sim_idx).sim_idx
  /\ failed_sims' = failed_sims + 1
  /\ completed' = completed

\* MCTS.search lines 98-108, one iteration of the simulation loop
Simulate ==
  /\ spc = "simulate"
  /\ sim_idx < num_simulations
  /\ \/ \* _process_events raises (pygame.error): the simulation is skipped
        /\ sim_idx % process_events_interval = 0
        /\ SimulationRaised
        /\ UNCHANGED <<tree, quit_pending, evaluation_failed>>
     \/ /\ quit_pending' = IF sim_idx % process_events_interval = 0
                           THEN FALSE ELSE quit_pending
        /\ \/ \* copy_board raises at line 132
              /\ SimulationRaised
              /\ UNCHANGED <<tree, evaluation_failed>>
           \/ \E p \in Leaves(tree) :
                LET sim_board == copy_board(tree[<<>>].board_ref, SimBoard) IN
                  \* make_move raises during the selection, after j moves
                  \/ \E j \in 0..(Len(p) - 1) :
                       /\ tree' = make_moves_in_place(tree, sim_board, game_type,
                                                      SubSeq(p, 1, j))
                       /\ SimulationRaised
                       /\ UNCHANGED evaluation_failed
                  \/ \E e \in Evaluations(
                              make_moves_in_place(tree, sim_board, game_type, p),
                              p, game_type) :
                       /\ evaluation_failed' =
                            (evaluation_failed \/ e.evaluation_failed)
                       /\ IF e.raised
                          THEN /\ tree' = e.tree
                               /\ SimulationRaised
                          ELSE /\ tree' = backpropagate(e.tree, p, e.value)
                               /\ completed' = completed + 1
                               /\ sim_idx' = sim_idx + 1
                               /\ UNCHANGED <<spc, failed_sims>>
  /\ UNCHANGED <<MatchVars, SharedVars, LeagueVars, root_board, root_failures,
                 bp_node, bp_value, policy, TrainVars, add_log>>

\* MCTS.search lines 110-127: the visit counts as the policy
FinishSearch ==
  /\ spc = "simulate"
  /\ sim_idx = num_simulations
  /\ policy' = visit_policy(tree)
  /\ spc' = "returned"
  /\ UNCHANGED <<MatchVars, SharedVars, quit_pending, LeagueVars, root_board, tree,
                 sim_idx, completed, failed_sims, root_failures, evaluation_failed,
                 bp_node, bp_value, TrainVars, add_log>>

\* an MCTS for either game, before search is called; an event may wait
InitMCTS ==
  /\ pc = "constructed"
  /\ agent1 = games_config[1].agent1
  /\ agent2 = games_config[1].agent2
  /\ game_type \in GameTypes
  /\ enable_validation = TRUE
  /\ buffer_given = TRUE
  /\ board = NoBoard
  /\ move_count = 0
  /\ experiences = <<>>
  /\ final_reward = 0
  /\ winner = None
  /\ attempt = 0
  /\ move = NoMove
  /\ legal_moves_raised = FALSE
  /\ move_logger = TRUE
  /\ LoggerNotStarted
  /\ agents = [a \in AgentNames |-> NewAgent]
  /\ replay_buffer = <<>>
  /\ quit_pending \in BOOLEAN
  /\ LeagueConstructed
  /\ SearchNotStarted
  /\ TrainingNotStarted

NextMCTS == StartSearch \/ Simulate \/ FinishSearch

SpecMCTS == InitMCTS /\ [][NextMCTS]_vars

\* ----------------------------------------------------- claims on the search
\* C5: when search returns for a board with a legal move, the visits of the
\* root's children add up to the number of _simulate calls that returned;
\* a simulation that raised added no visit.
C5_VisitsEqualCompletedSimulations ==
  (spc = "returned" /\ get_legal_moves(root_board) # {})
    => SumVisits(tree, children(tree, <<>>)) = completed

\* a search returned after simulations that went two levels deep, and after
\* at least one simulation that raised
C5_SearchReturned ==
  /\ spc = "returned"
  /\ completed >= 2
  /\ completed < num_simulations
  /\ \E p \in DOMAIN tree : Len(p) = 2 /\ tree[p].visits >= 1

RECURSIVE SumNumerators(_, _)
\* the numerators of the probabilities of the moves ms, added up
SumNumerators(f, ms) ==
  IF ms = {} THEN 0
  ELSE LET m == CHOOSE x \in ms : TRUE
       IN  f[m][1] + SumNumerators(f, ms \ {m})

\* C6: the mapping search returns for a board with a legal move has exactly
\* the legal moves of the root as keys; each value is the child's visits over
\* the visits of all the root's children, or 1 over the number of children
\* when there is no visit; the values add up to 1.
C6_PolicyIsVisitShare ==
  (spc = "returned" /\ get_legal_moves(root_board) # {})
    => LET total == SumVisits(tree, get_legal_moves(root_board))
           n == Cardinality(get_legal_moves(root_board))
       IN  /\ DOMAIN policy = get_legal_moves(root_board)
           /\ \A m \in DOMAIN policy :
                policy[m] = IF total = 0 THEN <<1, n>>
                            ELSE <<tree[<<m>>].visits, total>>
           /\ \A m \in DOMAIN policy :
                /\ policy[m][2] > 0
                /\ SumNumerators(policy, DOMAIN policy) = policy[m][2]

\* a search returned a policy with a move never visited and a move visited
C6_PolicyReturned ==
  /\ spc = "returned"
  /\ DOMAIN policy = Moves
  /\ policy["m2"][1] = 0
  /\ policy["m1"][1] >= 2

\* C15: when simulations raise, search does not raise: each failed
\* simulation is followed by the next index, all num_simulations indices are
\* attempted, and search returns a policy for the root's legal moves.
C15_SearchSurvivesSimulationErrors ==
  /\ sim_idx = completed + failed_sims
  /\ failed_sims > 0 => spc \in {"simulate", "returned"}
  /\ (spc = "returned" /\ get_legal_moves(root_board) # {})
       => /\ sim_idx = num_simulations
          /\ DOMAIN policy = get_legal_moves(root_board)

\* a search returned a policy although simulations raised
C15_ReturnedDespiteErrors ==
  /\ spc = "returned"
  /\ failed_sims >= 2
  /\ completed >= 1
  /\ DOMAIN policy = Moves

\* C16: when the network evaluation of the root raises (and nothing else
\* fails in the root expansion), search goes on: the root has one child per
\* legal move, each with prior 1/n, and the policy search returns is not empty.
C16_UniformPriorOnEvaluationFailure ==
  root_failures = {"evaluation"}
    => LET legal == get_legal_moves(root_board)
       IN  /\ spc \in {"simulate", "returned"}
           /\ children(tree, <<>>) = legal
           /\ \A m \in legal : tree[<<m>>].prior = <<1, Cardinality(legal)>>
           /\ spc = "returned" => DOMAIN policy # {}

\* a search returned a policy after the root evaluation had raised
C16_ReturnedAfterEvaluationFailure ==
  /\ spc = "returned"
  /\ root_failures = {"evaluation"}
  /\ DOMAIN policy = Moves
  /\ completed >= 1

\* ------------------------------------------- one training step of the league
\* the statements of TrainingManager.train_step that can raise, in order:
\* lines 35-66 (batch to tensors), 69, 72-76, 79-85, 88, 89, 91-101
TrainStatements ==
  <<"prepare", "zero_grad", "forward", "loss", "backward", "step", "item">>

\* the place of a statement in train_step
statement_index(st) ==
  CHOOSE i \in 1..Len(TrainStatements) : TrainStatements[i] = st

\* the losses of a step that ran through, in hundredths
Losses ==
  { [total_loss |-> 3, policy_loss |-> 2, value_loss |-> 1],
    [total_loss |-> 5, policy_loss |-> 1, value_loss |-> 4] }

\* torch.tensor(values) at line 64 raises when a reward is still None
has_pending_reward(b) == \E i \in 1..Len(b) : b[i][3] = None

\* TrainingManager.train_step(batch, game_type) on a net with weights w, where
\* nw names the weights optimizer.step() produces: the outcomes. The except
\* clause of line 103 catches whatever is raised and returns the zeroed dict;
\* nothing restores the weights. An exception in optimizer.step() can leave
\* some parameters updated.
train_step(b, w, nw) ==
  LET raise_points ==
        IF Len(b) = 0 \/ has_pending_reward(b) THEN {"prepare"}
        ELSE { TrainStatements[i] : i \in 1..Len(TrainStatements) }
      weights_after(st) ==
        IF statement_index(st) < statement_index("step") THEN {w}
        ELSE IF st = "step" THEN {w, nw}
        ELSE {nw}
  IN  UNION { { [weights |-> x, loss |-> ZeroLoss, raised_at |-> st] :
                  x \in weights_after(st) } : st \in raise_points }
      \cup
      (IF Len(b) = 0 \/ has_pending_reward(b) THEN {}
       ELSE { [weights |-> nw, loss |-> l, raised_at |-> "none"] : l \in Losses })

\* the agents whose experiences are in a buffer: those of the league, and an
\* agent a client of Competition.play_match named
ExperienceAgents == {"Champion", "chess_bot"}

\* the words "chess" and "checkers" inside str(agent.name)
name_words(name) == IF name = "chess_bot" THEN {"chess"} ELSE {}

\* "'chess' in str(exp)" for exp = [state_tensor, {str(move): 1.0}, reward,
\* agent.name]: the printed tensor, the move and the reward hold no letters
\* of a game's name; the agent's name may
str_contains(exp, word) == word \in name_words(exp[4])

\* line 910 / 911: [exp for exp in batch if game in str(exp)]
batch_of(b, game) == SelectSeq(b, LAMBDA exp : str_contains(exp, game))

\* the experiences of a batch, without the game that produced them
experiences_of(tagged) == [i \in 1..Len(tagged) |-> tagged[i][1]]

\* the experiences of a batch that the game g produced
produced_by(tagged, g) ==
  experiences_of(SelectSeq(tagged, LAMBDA x : x[2] = g))

\* experiences with the game that produced them
TaggedExperiences ==
  { << <<1, "m1", r, n>>, g >> :
      r \in {100, None}, n \in ExperienceAgents, g \in GameTypes }

\* the sequences of k different places of a buffer of n entries
Samples(n, k) ==
  { idx \in [1..k -> 1..n] : \A i, j \in 1..k : i # j => idx[i] # idx[j] }

\* line 907: batch = self.replay_buffer.sample(batch_size), that is
\* random.sample(self.buffer, min(batch_size, len(self.buffer)))
SampleBatch ==
  /\ tpc = "sample"
  /\ \E idx \in Samples(buffer_len(replay_buffer),
                        Min(batch_size, buffer_len(replay_buffer))) :
       batch' = [i \in DOMAIN idx |->
                   <<replay_buffer[idx[i]], buffer_games[idx[i]]>>]
  /\ tpc' = "chess"
  /\ UNCHANGED <<MatchVars, SharedVars, quit_pending, LeagueVars, MCTSVars,
                 buffer_games, train_game, loss_info, raised_at, weights_before,
                 train_calls, add_log>>

\* agent.training_manager.train_step(b, game) for the agent being trained
CallTrainStep(b, game) ==
  LET agent == agents_to_train[agent_idx + 1] IN
  \E out \in train_step(b, weights[agent], next_weight) :
    /\ weights_before' = weights
    /\ weights' = [weights EXCEPT ![agent] = out.weights]
    /\ next_weight' = next_weight + 1
    /\ loss_info' = out.loss
    /\ raised_at' = out.raised_at
    /\ train_game' = game

\* everything of the league but the weights
LeagueVarsButWeights ==
  <<lpc, generation, match_index, phase_attempt, agent_idx, step,
    training_iterations, defense_record, promotion_history, champion_history,
    best_agent, win_rate, baseline_scores, quit_gen, matches_returned,
    training_finished, loaded_generation, challenger_phases_run>>

\* lines 910-920 for one game: the part of the batch, and train_step on it
\* when it is not empty
TrainOn(game, next_tpc) ==
  /\ LET b == batch_of(experiences_of(batch), game) IN
       IF Len(b) > 0
       THEN /\ CallTrainStep(b, game)
            /\ train_calls' = [train_calls EXCEPT ![game] = b]
       ELSE UNCHANGED <<weights, next_weight, loss_info, raised_at, train_game,
                        weights_before, train_calls>>
  /\ tpc' = next_tpc
  /\ UNCHANGED <<MatchVars, SharedVars, quit_pending, LeagueVarsButWeights,
                 MCTSVars, batch, buffer_games, add_log>>

\* lines 910, 914-916
TrainChess == tpc = "chess" /\ TrainOn("chess", "checkers")

\* lines 911, 918-920
TrainCheckers == tpc = "checkers" /\ TrainOn("checkers", "done")

\* train_step called by any client with any batch
TrainStepCall ==
  /\ tpc = "call"
  /\ CallTrainStep(experiences_of(batch), train_game)
  /\ tpc' = "returned"
  /\ UNCHANGED <<MatchVars, SharedVars, quit_pending, LeagueVarsButWeights,
                 MCTSVars, batch, buffer_games, train_calls, add_log>>

\* a training step of the training phase is about to sample from a buffer of
\* batch_size experiences, or train_step is about to be called with a batch
InitTraining ==
  /\ pc = "constructed"
  /\ agent1 = games_config[1].agent1
  /\ agent2 = games_config[1].agent2
  /\ game_type = games_config[1].game_type
  /\ enable_validation = TRUE
  /\ buffer_given = TRUE
  /\ board = NoBoard
  /\ move_count = 0
  /\ experiences = <<>>
  /\ final_reward = 0
  /\ winner = None
  /\ attempt = 0
  /\ move = NoMove
  /\ legal_moves_raised = FALSE
  /\ move_logger = TRUE
  /\ LoggerNotStarted
  /\ agents = [a \in AgentNames |-> NewAgent]
  /\ quit_pending = FALSE
  /\ LeagueConstructed
  /\ SearchNotStarted
  /\ \/ /\ tpc = "sample"
        /\ \E tagged \in [1..batch_size -> TaggedExperiences] :
             /\ replay_buffer = experiences_of(tagged)
             /\ buffer_games = [i \in 1..Len(tagged) |-> tagged[i][2]]
        /\ batch = <<>>
        /\ train_game = "chess"
     \/ /\ tpc = "call"
        /\ replay_buffer = <<>>
        /\ buffer_games = <<>>
        /\ \E k \in 0..batch_size : batch \in [1..k -> TaggedExperiences]
        /\ train_game \in GameTypes
  /\ loss_info = NoLoss
  /\ raised_at = "none"
  /\ weights_before = InitialWeights
  /\ train_calls = [g \in GameTypes |-> <<>>]
  /\ add_log = <<>>

NextTraining == SampleBatch \/ TrainChess \/ TrainCheckers \/ TrainStepCall

SpecTraining == InitTraining /\ [][NextTraining]_vars

\* C17: when a statement of train_step raises, the call returns the zeroed
\* loss dict and the weights are those the call started with.
C17_ExceptionLeavesWeightsUnchanged ==
  raised_at # "none" => (loss_info = ZeroLoss /\ weights = weights_before)

\* C20: in a training step train_step is called for a game exactly when the
\* batch holds an experience that game produced, and on exactly the
\* experiences of that game.
C20_BatchSplitByProducingGame ==
  tpc = "done"
    => \A g \in GameTypes : train_calls[g] = produced_by(batch, g)

\* ------------------------------------------ SharedReplayBuffer.add by a client
\* bound: how many more adds than the capacity a client makes
extra_adds == 2

\* the j-th experience of the n-th add call; the experiences are told apart by
\* their reward (hundredths)
nth_experience(n, j) == <<1, "m1", 10 * n + j, "Alpha">>

\* what a client passes to add: one experience as Match._record_experience
\* builds it, a Python list [state, policy, reward, name]; one experience as a
\* tuple; or a list of experiences
AddArguments(n) ==
  { [kind |-> "experience_list", value |-> nth_experience(n, 1)],
    [kind |-> "experience_tuple", value |-> nth_experience(n, 1)],
    [kind |-> "experiences",
     value |-> <<nth_experience(n, 1), nth_experience(n, 2)>>] }

\* isinstance(experiences, list)
isinstance_list(arg) == arg.kind \in {"experience_list", "experiences"}

\* the items of a list argument: the experiences of a list of experiences, the
\* four fields of an experience that is a list (item k of e is kept as <<k, e>>)
list_items(arg) ==
  IF arg.kind = "experiences" THEN arg.value
  ELSE [k \in 1..Len(arg.value) |-> <<k, arg.value>>]

\* deque(maxlen=capacity).append
deque_append(buf, x) == LastN(Append(buf, x), buffer_capacity)

\* SharedReplayBuffer.add(experiences) for any argument
add_argument(buf, arg) ==
  IF isinstance_list(arg) THEN add(buf, list_items(arg))
  ELSE deque_append(buf, arg.value)

\* replay_buffer.add(arg) with one experience
AddExperience ==
  /\ Len(add_log) < buffer_capacity + extra_adds
  /\ \E arg \in AddArguments(Len(add_log) + 1) :
       /\ arg.kind # "experiences"
       /\ replay_buffer' = add_argument(replay_buffer, arg)
       /\ add_log' = Append(add_log, arg)
  /\ UNCHANGED <<MatchVars, agents, quit_pending, LeagueVars, MCTSVars, TrainVars>>

\* replay_buffer.add(arg) with a list of experiences
AddExperiences ==
  /\ Len(add_log) < buffer_capacity + extra_adds
  /\ \E arg \in AddArguments(Len(add_log) + 1) :
       /\ arg.kind = "experiences"
       /\ replay_buffer' = add_argument(replay_buffer, arg)
       /\ add_log' = Append(add_log, arg)
  /\ UNCHANGED <<MatchVars, agents, quit_pending, LeagueVars, MCTSVars, TrainVars>>

NextBuffer == AddExperience \/ AddExperiences

\* the empty buffer LeagueManager.__init__ makes, and its clients
SpecBuffer == InitLeague /\ [][NextBuffer]_vars

\* C18: the buffer never holds more than buffer_capacity entries, and after
\* more than buffer_capacity adds of one experience each, starting from the
\* empty buffer, it holds exactly the last buffer_capacity experiences added,
\* oldest first.
C18_KeepsLastCapacityExperiences ==
  /\ buffer_len(replay_buffer) <= buffer_capacity
  /\ (/\ Len(add_log) > buffer_capacity
      /\ \A i \in 1..Len(add_log) : add_log[i].kind # "experiences")
       => replay_buffer =
            LastN([i \in 1..Len(add_log) |-> add_log[i].value], buffer_capacity)

RECURSIVE claimed_entries(_)
\* one entry per single experience and n entries, in order, per list of n
\* experiences
claimed_entries(log) ==
  IF log = <<>> THEN <<>>
  ELSE LET arg == log[Len(log)]
       IN  claimed_entries(SubSeq(log, 1, Len(log) - 1)) \o
             (IF arg.kind = "experiences" THEN arg.value ELSE <<arg.value>>)

\* C19: add(e) with one experience as Match._record_experience builds it
\* appends exactly one entry equal to e, and add(seq) with n experiences
\* appends n entries in order (the oldest entries leaving at capacity).
C19_AddAppendsWholeExperiences ==
  replay_buffer = LastN(claimed_entries(add_log), buffer_capacity)

\* -------------------------------------------- more claims on MCTS.search
RECURSIVE ChildVisits(_, _, _)
\* sum(child.visits for child in node.children.values()) for the node at p,
\* over its children by the moves ms
ChildVisits(t, p, ms) ==
  IF ms = {} THEN 0
  ELSE LET m == CHOOSE x \in ms : TRUE
       IN  t[Append(p, m)].visits + ChildVisits(t, p, ms \ {m})

\* the path of the parent of the node at path q
parent(q) == SubSeq(q, 1, Len(q) - 1)

\* C26: search never changes the board it was called with; no two nodes hold
\* the same board object and no node holds the board object of a simulation;
\* every child's board shows its parent's position after the child's move, in
\* every state of the search.
C26_BoardsAreFreshCopies ==
  spc # "idle"
    => /\ tree[<<>>].board_ref = CallerBoard
       /\ tree[<<>>].board = root_board
       /\ \A p, q \in DOMAIN tree : p # q => tree[p].board_ref # tree[q].board_ref
       /\ \A q \in DOMAIN tree : tree[q].board_ref # SimBoard
       /\ \A q \in DOMAIN tree \ {<<>>} :
            tree[q].board =
              search_make_move(game_type, tree[parent(q)].board, q[Len(q)])

\* a search returned after a simulation that selected two moves deep and
\* expanded the node it reached
C26_DeepSimulationDone ==
  /\ spc = "returned"
  /\ \E q \in DOMAIN tree : Len(q) = 3
  /\ \E q \in DOMAIN tree : Len(q) = 2 /\ tree[q].visits >= 1

\* C28: while no network evaluation and no expansion has failed in the
\* search, the root's visits are the sum of its children's visits and every
\* other node that has children has 1 visit more than its children together.
C28_VisitsAddUp ==
  (spc \in {"simulate", "returned"} /\ root_failures = {} /\ ~evaluation_failed)
    => \A p \in DOMAIN tree :
         ~is_leaf(tree, p)
           => tree[p].visits = (IF p = <<>> THEN 0 ELSE 1)
                                 + ChildVisits(tree, p, children(tree, p))

\* a search without a failed evaluation returned after a simulation went
\* through an expanded child of the root
C28_InnerNodeVisitedTwice ==
  /\ spc = "returned"
  /\ root_failures = {}
  /\ ~evaluation_failed
  /\ \E m \in Moves : ~is_leaf(tree, <<m>>) /\ tree[<<m>>].visits >= 2

\* ------------------------------------------- MCTSNode.backpropagate by a client
\* bound: how many backpropagate calls are made on the tree
max_backpropagations == 3

\* the values backed up: network values and terminal rewards, all in [-1, 1]
LeafValues == NetValues \cup {-100, 100}

\* the trees backpropagate is called on: a root, a root with its children, and
\* one with the children of its first child too
BackpropTrees(game) ==
  LET pol == CHOOSE x \in NetPolicies : TRUE
      b == CHOOSE x \in SearchRoots(game) : ~is_game_over(x)
      t0 == [p \in {<<>>} |-> MCTSNode(b, CallerBoard, <<1, 1>>)]
      t1 == expand(t0, <<>>, game, Len(legal_moves_list(b)), pol)
      t2 == expand(t1, <<"m1">>, game, Len(legal_moves_list(t1[<<"m1">>].board)), pol)
  IN  {t0, t1, t2}

\* node.backpropagate(value) for any node of the tree and any value
Backpropagate ==
  /\ spc = "backpropagate"
  /\ completed < max_backpropagations
  /\ \E p \in DOMAIN tree, v \in LeafValues :
       /\ tree' = backpropagate(tree, p, v)
       /\ bp_node' = p
       /\ bp_value' = v
  /\ completed' = completed + 1
  /\ UNCHANGED <<MatchVars, SharedVars, quit_pending, LeagueVars, spc, root_board,
                 sim_idx, failed_sims, root_failures, evaluation_failed, policy,
                 TrainVars, add_log>>

\* a tree of fresh nodes, before the first backpropagate
InitBackpropagate ==
  /\ pc = "constructed"
  /\ agent1 = games_config[1].agent1
  /\ agent2 = games_config[1].agent2
  /\ game_type \in GameTypes
  /\ enable_validation = TRUE
  /\ buffer_given = TRUE
  /\ board = NoBoard
  /\ move_count = 0
  /\ experiences = <<>>
  /\ final_reward = 0
  /\ winner = None
  /\ attempt = 0
  /\ move = NoMove
  /\ legal_moves_raised = FALSE
  /\ move_logger = TRUE
  /\ LoggerNotStarted
  /\ agents = [a \in AgentNames |-> NewAgent]
  /\ replay_buffer = <<>>
  /\ quit_pending = FALSE
  /\ LeagueConstructed
  /\ spc = "backpropagate"
  /\ tree \in BackpropTrees(game_type)
  /\ root_board = tree[<<>>].board
  /\ sim_idx = 0
  /\ completed = 0
  /\ failed_sims = 0
  /\ root_failures = {}
  /\ evaluation_failed = FALSE
  /\ bp_node = <<>>
  /\ bp_value = 0
  /\ policy = <<>>
  /\ TrainingNotStarted

NextBackpropagate == Backpropagate

SpecBackpropagate == InitBackpropagate /\ [][NextBackpropagate]_vars

\* C21: after any sequence of backpropagations of values in [-1, 1], from any
\* nodes of the tree, the value of every node is in [-1, 1] (the model's
\* values are hundredths, kept as numerator and denominator).
C21_ValuesStayInRange ==
  \A q \in DOMAIN tree :
    /\ tree[q].value[2] > 0
    /\ tree[q].value[1] <= 100 * tree[q].value[2]
    /\ tree[q].value[1] >= -100 * tree[q].value[2]

\* after the last backpropagation a node visited several times has the value
\* 1 and another has a value strictly between 0 and 1
C21_ExtremeValueReached ==
  /\ completed = max_backpropagations
  /\ \E q \in DOMAIN tree :
       tree[q].visits >= 2 /\ tree[q].value[1] = 100 * tree[q].value[2]
  /\ \E q \in DOMAIN tree :
       /\ tree[q].visits >= 2
       /\ tree[q].value[1] > 0
       /\ tree[q].value[1] < 100 * tree[q].value[2]

\* C25: a backpropagation of v from the node p adds exactly 1 to the visits of
\* p and of each ancestor of p and of no other node; on these nodes the value
\* becomes value + (x - value) / visits, visits being the new count and x
\* being v at p, -v at its parent, v again one level higher and so on; the
\* nodes of the tree, their priors and their boards stay as they were.
C25_BackpropagateUpdatesPathOnly ==
  [][ LET p == bp_node'
          v == bp_value'
      IN  /\ DOMAIN tree' = DOMAIN tree
          /\ \A q \in DOMAIN tree :
               /\ tree'[q].prior = tree[q].prior
               /\ tree'[q].board = tree[q].board
               /\ tree'[q].board_ref = tree[q].board_ref
               /\ IF IsAncestorOrSelf(q, p)
                  THEN LET x == IF (Len(p) - Len(q)) % 2 = 0 THEN v ELSE -v
                           n == tree[q].value[1]
                           d == tree[q].value[2]
                           visits == tree[q].visits + 1
                       IN  /\ tree'[q].visits = visits
                           \* value' = n/d + (x - n/d) / visits
                           /\ tree'[q].value[1] * d * visits
                                = tree'[q].value[2] * (n * visits + x * d - n)
                  ELSE /\ tree'[q].visits = tree[q].visits
                       /\ tree'[q].value = tree[q].value ]_vars

\* a backpropagation started two levels below the root, after another one
\* had given the root a value; a sibling of the start node has no visit
C25_BackpropagatedFromGrandchild ==
  /\ completed >= 2
  /\ bp_node = <<"m1", "m1">>
  /\ bp_value = 50
  /\ tree[<<>>].visits >= 2
  /\ tree[<<"m1">>].visits >= 1
  /\ tree[<<"m1", "m2">>].visits = 0

\* ------------------------------------------- more claims on run_training
\* the agents' records after the next k matches of a roster that starts at
\* index i, for every set of results; S is the set of records before
RECURSIVE roster_records(_, _, _)
roster_records(S, i, k) ==
  IF k = 0 THEN S
  ELSE roster_records(
         { record_results(ags, reward, games_config[i].agent1,
                          games_config[i].agent2, games_config[i].game_type) :
             ags \in S, reward \in MatchRewards },
         i + 1, k - 1)

\* the generations before gen that had a wildcard phase
wildcard_generations(gen) ==
  { g \in 0..(gen - 1) : after_challenger(g) = "wildcard" }

\* the agents' records when the challenger phase of generation gen begins and
\* no generation before had a challenger phase: rosters and wildcard phases
RECURSIVE records_at_challenger(_, _, _)
records_at_challenger(S, g, gen) ==
  LET played == roster_records(S, 1, Len(games_config)) IN
    IF g = gen THEN played
    ELSE records_at_challenger(
           IF g \in wildcard_generations(gen)
           THEN { record_evaluation(ags, "Champion", "Wildcard",
                                    wildcard_num_games, w) :
                    ags \in played, w \in EvalWins(wildcard_num_games) }
           ELSE played,
           g + 1, gen)

\* the ascending sequence of the numbers below n that are in S
RECURSIVE ascending(_, _)
ascending(S, n) ==
  IF n = 0 THEN <<>>
  ELSE IF (n - 1) \in S THEN Append(ascending(S, n - 1), n - 1)
  ELSE ascending(S, n - 1)

\* run_training at the first challenger phase of a league whose buffer held
\* fewer than batch_size experiences so far (every training phase returned at
\* lines 878-882): the rosters of generations 0..challenger_interval - 1 and
\* the wildcard phases before this generation have run
InitEvaluation ==
  /\ pc = "constructed"
  /\ agent1 = games_config[1].agent1
  /\ agent2 = games_config[1].agent2
  /\ game_type = games_config[1].game_type
  /\ enable_validation = TRUE
  /\ buffer_given = TRUE
  /\ board = NoBoard
  /\ move_count = 0
  /\ experiences = <<>>
  /\ final_reward = 0
  /\ winner = None
  /\ attempt = 0
  /\ move = NoMove
  /\ legal_moves_raised = FALSE
  /\ move_logger = TRUE
  /\ LoggerNotStarted
  /\ agents \in records_at_challenger({[a \in AgentNames |-> NewAgent]}, 0,
                                      challenger_interval - 1)
  /\ replay_buffer \in { buf \in PriorBuffers : buffer_len(buf) < batch_size }
  /\ quit_pending = FALSE
  /\ lpc = "challenger"
  /\ generation = challenger_interval - 1
  /\ match_index = Len(games_config)
  /\ phase_attempt = 0
  /\ agent_idx = 0
  /\ step = 0
  /\ LET resets == Cardinality(wildcard_generations(generation)) IN
       /\ weights = [InitialWeights EXCEPT
                       !["Wildcard"] = IF resets = 0 THEN @ ELSE resets + 1]
       /\ next_weight = 2 + resets
  /\ training_iterations = [a \in {"Alpha", "Beta"} |-> 0]
  /\ defense_record = 0
  /\ promotion_history = <<>>
  /\ champion_history = <<>>
  /\ best_agent = "none"
  /\ win_rate = <<0, 0>>
  /\ baseline_scores = ascending(wildcard_generations(generation), generation)
  /\ quit_gen = {}
  /\ matches_returned = Len(games_config)
  /\ training_finished = TRUE
  /\ loaded_generation = None
  /\ challenger_phases_run = 0
  /\ SearchNotStarted
  /\ TrainingNotStarted

NextEvaluation ==
  \/ ChallengerPhase
  \/ WildcardPhase

\* the evaluation phases of one generation
SpecEvaluation == InitEvaluation /\ [][NextEvaluation]_vars

\* a step of the challenger phase or of the wildcard phase (one execution of
\* the phase by its retry wrapper)
EvaluationPhaseStep ==
  /\ lpc \in {"challenger", "wildcard"}
  /\ \/ lpc' # lpc
     \/ phase_attempt' # phase_attempt

\* C23: the evaluation matches of the challenger phase and of the wildcard
\* phase add no experience to the replay buffer and invoke no training step:
\* across every execution of these phases the buffer's contents are identical,
\* the count of training iterations is unchanged and every agent that is
\* trained has weights that some agent had before the phase.
C23_EvaluationLeavesBufferAlone ==
  [][ EvaluationPhaseStep =>
        /\ replay_buffer' = replay_buffer
        /\ training_iterations' = training_iterations
        /\ \A i \in 1..Len(agents_to_train) :
             \E a \in AgentNames : weights'[agents_to_train[i]] = weights[a] ]_vars

\* the challenger phase and the wildcard phase of a generation have been
\* executed while the buffer held experiences
C23_EvaluatedWithFilledBuffer ==
  /\ lpc = "end"
  /\ best_agent # "none"
  /\ challenger_phases_run = 1
  /\ Len(baseline_scores) >= 1
  /\ baseline_scores[Len(baseline_scores)] = generation
  /\ buffer_len(replay_buffer) > 0

\* C30: in a league that started fresh, whenever no challenger phase is being
\* executed, champion_history and the Champion's promotion_history have the
\* same length and that length plus the Champion's defense wins is the number
\* of challenger phases run, also when a phase was executed again by its
\* retry wrapper.
C30_EachChallengerPhaseCountsOnce ==
  (loaded_generation = None /\ lpc # "challenger") =>
    /\ Len(champion_history) = Len(promotion_history)
    /\ Len(promotion_history) + defense_record = challenger_phases_run

\* ---------------------------------------- Match.play and the move logger
\* the statements of Match.play that call into the logger or the tracker
LoggerCalls == {"constructed", "log_move", "finalize_logging"}

\* the statement Match.play executes after each of them returned
after_logger_call(at) ==
  IF at = "constructed" THEN "create_board"
  ELSE IF at = "log_move" THEN "show"
  ELSE "add"

\* what the match computes apart from its logs
MatchOutcome ==
  <<board, move_count, experiences, final_reward, winner, attempt, move, agents,
    replay_buffer>>

\* C24: a call into the move logger or the score tracker that fails does not
\* abort the match: whether the call fails or not, Match.play goes on with
\* the same next statement and the board, the move count, the experiences,
\* the final reward, the winner, the agents' records and the buffer are what
\* they were before the call.
C24_LoggerFailureDoesNotAbort ==
  [][ (pc \in LoggerCalls) =>
        /\ pc' = after_logger_call(pc)
        /\ MatchOutcome' = MatchOutcome ]_vars

\* a match whose logger failed has played a move, has determined a winner and
\* has returned with its experiences rewarded
C24_ReturnedAfterLoggerFailure ==
  /\ pc = "returned"
  /\ logger_failed
  /\ winner # None
  /\ move_count >= 1
  /\ Len(experiences) >= 1
  /\ \A i \in 1..Len(experiences) : experiences[i][3] # None

\* C27: when Match.play has returned and start_game_log was called for the
\* match, end_game_log was called exactly once for its game id and the game
\* is not in the logger's set of games in progress.
C27_EveryStartedLogIsEnded ==
  (pc = "returned" /\ start_game_log_called) =>
    /\ end_game_log_calls = 1
    /\ ~current_games

\* ------------------------------------------------ game.make_move by a client
\* board.push(move) of the rule engine (python-chess, pydraughts): a legal
\* move is applied. A move that is not legal is refused with an exception
\* that leaves the board, or it is applied all the same, which is the case
\* post-move validation is there for
push(game, b, m) ==
  { [raised |-> FALSE, board |-> b2] : b2 \in make_move(game, b) }
  \cup (IF m \in get_legal_moves(b) THEN {} ELSE { [raised |-> TRUE, board |-> b] })

\* ChessGame.validate_move_hook: the move is one of board_before.legal_moves
\* and _validate_chess_piece_integrity accepts the two boards.
\* CheckersGame.validate_move_hook: True
validate_move_hook(game, board_before, board_after, m, integrity) ==
  IF game = "chess"
  THEN m \in get_legal_moves(board_before) /\ integrity
  ELSE TRUE

\* BaseGame.post_move_validation: the hook's answer (the hooks catch their
\* own exceptions)
post_move_validation(game, board_before, board_after, m, integrity) ==
  validate_move_hook(game, board_before, board_after, m, integrity)

\* ChessGame.make_move / CheckersGame.make_move: what the caller sees, an
\* exception or the return, and the board object afterwards. board.pop()
\* gives back the position before the push
game_make_move(game, b, m) ==
  UNION { IF r.raised
          THEN { [raised |-> TRUE, board |-> r.board] }
          ELSE { IF post_move_validation(game, b, r.board, m, integrity)
                 THEN [raised |-> FALSE, board |-> r.board]
                 ELSE [raised |-> TRUE, board |-> b] : integrity \in BOOLEAN }
        : r \in push(game, b, m) }

\* a client calls game.make_move(board, move)
MakeMove ==
  /\ pc = "make_move"
  /\ \E r \in game_make_move(game_type, board, move) :
       /\ board' = r.board
       /\ pc' = IF r.raised THEN "make_move_raised" ELSE "make_move_returned"
  /\ UNCHANGED <<agent1, agent2, game_type, enable_validation, buffer_given,
                 move_count, experiences, final_reward, winner, attempt, move,
                 legal_moves_raised, LoggerVars, SharedVars, quit_pending,
                 LeagueVars, MCTSVars, TrainVars, add_log>>

\* make_move called for any position of either game with a move of the
\* position's legal moves or with a move ("m3") that is legal in no position
InitMakeMove ==
  /\ pc = "make_move"
  /\ \E i \in 1..Len(games_config) :
       /\ agent1 = games_config[i].agent1
       /\ agent2 = games_config[i].agent2
       /\ game_type = games_config[i].game_type
  /\ enable_validation = TRUE
  /\ buffer_given = TRUE
  /\ board \in Boards(game_type)
  /\ move_count = 0
  /\ experiences = <<>>
  /\ final_reward = 0
  /\ winner = None
  /\ attempt = 0
  /\ move \in Moves \cup {"m3"}
  /\ legal_moves_raised = FALSE
  /\ move_logger = TRUE
  /\ LoggerNotStarted
  /\ agents = [a \in AgentNames |-> NewAgent]
  /\ replay_buffer = <<>>
  /\ quit_pending = FALSE
  /\ LeagueConstructed
  /\ SearchNotStarted
  /\ TrainingNotStarted

NextMakeMove == MakeMove

SpecMakeMove == InitMakeMove /\ [][NextMakeMove]_vars

\* C22: for both games, make_move with a move that is not legal in the
\* position signals an error, and the board the caller holds is then equal
\* to the board before the call.
C22_IllegalMoveIsRefused ==
  [][ (pc = "make_move" /\ move \notin get_legal_moves(board))
        => (pc' = "make_move_raised" /\ board' = board) ]_vars

====
